---- MODULE Spec2Model ----
(***************************************************************************)
(* Model of the calendar polling cycle of loop_calendar_bot:               *)
(*   CalDAVManager.get_events            (fetch with its fallback stages)  *)
(*   NotificationManager.check_and_notify (diff against the cache)         *)
(*   NotificationManager._maybe_send_daily_digest                          *)
(*   Bot.check_notifications_loop        (the tick loop)                   *)
(* Times are seconds since midnight of day 0 in the configured zone.       *)
(***************************************************************************)
EXTENDS Integers, Sequences, FiniteSets, TLC

VARIABLES
    now,        \* wall-clock time read by the tick (datetime.now(self.tz))
    pos,        \* position of check_and_notify in its user list; 0 = the loop sleeps
    cache,      \* table meeting_cache: [user -> [uid -> row or NoRow]]
    digestLog,  \* table of DailyDigestLog rows: set of <<user, date>>
    last,       \* record of the latest per-user iteration of check_and_notify
    streak,     \* history: per uid, the event every fetch of the current run held, and the NEW notices it got
    digestDone, \* history: the <<user, date>> for which a digest message was delivered
    tombstoned, \* history: the <<user, uid>> whose row the implicit branch flipped and no upsert rewrote
    probe,      \* one application of a pure function to its inputs
    fired,      \* history: the <<user, uid, alarm>> whose reminder a tick fired while the event stayed fetched
    running     \* Bot.running

vars == <<now, pos, cache, digestLog, last, streak, digestDone, tombstoned, probe, fired,
          running>>

----------------------------------------------------------------------------
(* Bounds of the model *)

MaxDay == 2         \* the clock runs over days 0..MaxDay
MaxFetch == 2       \* events in one fetch result
MaxNews == 2        \* the history counts the NEW notices of a run up to MaxNews

(* Program constants *)

MINUTE == 60
DAY == 86400
DAILY_DIGEST_HOUR == 9
CHECK_INTERVAL == 60                 \* Config.CHECK_INTERVAL, seconds
REMINDER_MINUTES == 15               \* Config.REMINDER_MINUTES
TOLERANCE_MS == 50                   \* tolerance of _next_schedule_tick, milliseconds

HOUR == 60 * MINUTE

----------------------------------------------------------------------------
(* Universe of inputs *)

RegUsers == <<"u1">>                 \* rows of table users, in query order
TwoUsers == <<"u1", "u2">>
Users == {TwoUsers[i] : i \in 1..Len(TwoUsers)}
SyntheticUid == "fallback-0-0"       \* the uid the regex pass gives a VEVENT without UID
UIDs == {"a", "b", SyntheticUid}
Days == 0..MaxDay

\* tick times of a day: before the digest hour, and across it
MorningTods == {8 * HOUR, 8 * HOUR + MINUTE}
DigestTods == {8 * HOUR, 9 * HOUR, 10 * HOUR}
TwoUserTods == {8 * HOUR}
ReminderTods ==
    {10 * HOUR - (REMINDER_MINUTES + 1) * MINUTE, 10 * HOUR - REMINDER_MINUTES * MINUTE,
     10 * HOUR - 2 * CHECK_INTERVAL, 10 * HOUR - CHECK_INTERVAL, 10 * HOUR}

\* seconds between the tick and the moment _check_reminders reads the clock
NoDelay == {0}
Delays == {0, 10}
TickTimes(tods) == {d * DAY + t : d \in Days, t \in tods}

NoTime == 0 - 1                      \* start_time / end_time '' (not parseable)
NoRow == [status |-> "NONE", start |-> NoTime, end |-> NoTime, details |-> "", hash |-> <<>>]

T0 == DAY + 10 * HOUR                \* 10:00:00 on day 1
StartTimes == {T0, T0 + 30, T0 + 61}
Duration == 30 * MINUTE

\* an event dict with its VALARM trigger times; details stands for title,
\* description, location, organizer and attendees
EventWithAlarms(u, s, t1, t2, al) ==
    [uid |-> u, status |-> s, start |-> t1, end |-> t2, alarms |-> al, details |-> "d0"]

Event(u, s, t1, t2) == EventWithAlarms(u, s, t1, t2, <<>>)

\* events as the REPORT parser builds them (both times are ISO strings): uid "a"
\* in every status and time, uid "b" as the other event of a fetch
WellFormedEvents ==
    {Event("a", "CONFIRMED", t, t + Duration) : t \in StartTimes}
    \cup {Event("a", "CANCELLED", T0, T0 + Duration),
          Event("b", "CONFIRMED", T0, T0 + Duration)}

\* events only the alternate client can build: an all-day DTSTART gives
\* start_time '', a missing DTEND gives end_time ''
MalformedEvents ==
    {Event("b", "CONFIRMED", NoTime, T0 + Duration),
     Event("b", "CONFIRMED", T0, NoTime)}

AllEvents == WellFormedEvents \cup MalformedEvents

RECURSIVE ListsOver(_, _)
ListsOver(E, n) ==
    IF n = 0 THEN {<<>>}
    ELSE LET shorter == ListsOver(E, n - 1)
         IN shorter \cup
            {Append(l, e) : l \in {x \in shorter : Len(x) = n - 1}, e \in E}

DistinctUids(l) == \A i, j \in 1..Len(l) : i # j => l[i].uid # l[j].uid

ReportLists == {l \in ListsOver(WellFormedEvents, MaxFetch) : DistinctUids(l)}
AltLists == {l \in ListsOver(AllEvents, MaxFetch) : DistinctUids(l)}

\* an event with three alarms in the last minute before its start, after one alarm
\* string that does not parse
AlarmedEvent ==
    EventWithAlarms("a", "CONFIRMED", T0, T0 + Duration,
                    <<NoTime, T0 - 55, T0 - 45, T0 - 40>>)

\* the fetch results of the reminder specification
ReminderReportLists ==
    {<<Event("a", "CONFIRMED", T0, T0 + Duration)>>,
     <<AlarmedEvent>>,
     <<AlarmedEvent, Event("b", "CONFIRMED", T0, T0 + Duration)>>,
     <<Event("a", "CANCELLED", T0, T0 + Duration)>>}
ReminderAltLists == {<<>>}

\* the fetch results of the specifications with two users
TwoUserReportLists == {<<Event("a", "CONFIRMED", T0, T0 + Duration)>>}
TwoUserAltLists == {<<Event("b", "CONFIRMED", NoTime, T0 + Duration)>>}

\* the fetch results of the cache-row specification: event a as it is, with only
\* its details edited, cancelled, and twice in one response (an override instance
\* of a recurring event has its master's UID); a VEVENT without UID from the regex
\* pass, and one from the structured pass (uid '')
RowsReportLists ==
    {<<>>,
     <<Event("a", "CONFIRMED", T0, T0 + Duration)>>,
     <<[Event("a", "CONFIRMED", T0, T0 + Duration) EXCEPT !.details = "d1"]>>,
     <<Event("a", "CANCELLED", T0, T0 + Duration)>>,
     <<Event("a", "CONFIRMED", T0, T0 + Duration),
       Event("a", "CONFIRMED", T0 + 61, T0 + 61 + Duration)>>,
     <<Event(SyntheticUid, "CONFIRMED", T0, T0 + Duration)>>,
     <<Event("a", "CONFIRMED", T0, T0 + Duration),
       Event("", "CONFIRMED", T0, T0 + Duration)>>}

\* the few fetch results of the digest specification
FewReportLists == {<<>>, <<Event("a", "CONFIRMED", T0, T0 + Duration)>>}
FewAltLists == {<<>>} \cup {<<e>> : e \in MalformedEvents}

----------------------------------------------------------------------------
(* CalDAVManager.get_events *)

\* discovered calendar lists (get_calendars): none, or one calendar
CalendarLists == {<<>>, <<"c1">>}
Calendars == {"c1"}

\* outcome of one REPORT: status in (200, 207) with the parsed events, or a failure
\* (another status, or an exception of the request)
ReportFailed == [ok |-> FALSE, evs |-> <<>>]
ReportResponses(lists) == {ReportFailed} \cup {[ok |-> TRUE, evs |-> l] : l \in lists}

\* outcome of the python-caldav stage: it raises, the principal has no calendars,
\* or date_search returns
AltFailed == [kind |-> "raise", evs |-> <<>>]
AltResponses(lists) ==
    {AltFailed, [kind |-> "nocal", evs |-> <<>>]}
    \cup {[kind |-> "ok", evs |-> l] : l \in lists}

\* a stage whose last_events_ok follows the last calendar asked
RECURSIVE ReportStageLast(_, _, _, _)
ReportStageLast(cals, resp, i, acc) ==
    IF i > Len(cals) THEN acc
    ELSE ReportStageLast(cals, resp, i + 1,
            [events |-> acc.events \o (IF resp[cals[i]].ok THEN resp[cals[i]].evs ELSE <<>>),
             ok |-> resp[cals[i]].ok])

\* the loop "for cal in calendars" of one REPORT stage, from calendar i on
RECURSIVE ReportStage(_, _, _, _)
ReportStage(cals, resp, i, acc) ==
    IF i > Len(cals) THEN acc
    ELSE LET r == resp[cals[i]]
         IN IF ~r.ok
            THEN ReportStage(cals, resp, i + 1, acc)
            ELSE ReportStage(cals, resp, i + 1,
                             [events |-> acc.events \o r.evs, ok |-> TRUE])

\* all_events and last_events_ok when get_events starts
FetchStart == [events |-> <<>>, ok |-> FALSE]

\* the python-caldav stage, entered with all_events empty
AltStage(acc, alt) ==
    IF alt.kind = "ok" THEN [events |-> alt.evs, ok |-> TRUE] ELSE acc

\* a ladder whose fallback stages run whatever the earlier stages found
StageAlways(acc) == TRUE

\* "if not all_events": a fallback stage is entered only with an empty aggregate
StageNeeded(acc) == acc.events = <<>>

\* get_events: [events |-> the returned list, ok |-> last_events_ok]
GetEvents(cals, prim, wide, alt) ==
    IF cals = <<>> THEN FetchStart
    ELSE LET s1 == ReportStage(cals, prim, 1, FetchStart)
             s2 == IF StageNeeded(s1) THEN ReportStage(cals, wide, 1, s1) ELSE s1
         IN IF StageNeeded(s2) THEN AltStage(s2, alt) ELSE s2

\* one attempted stage: all_events and last_events_ok before and after it
StageRun(name, before, after) == [stage |-> name, before |-> before, after |-> after]

\* get_events again, as the sequence of the stages it attempts
GetEventsStages(cals, prim, wide, alt) ==
    IF cals = <<>> THEN <<>>
    ELSE LET s1 == ReportStage(cals, prim, 1, FetchStart)
             s2 == IF StageNeeded(s1) THEN ReportStage(cals, wide, 1, s1) ELSE s1
         IN <<StageRun("primary", FetchStart, s1)>>
            \o (IF StageNeeded(s1) THEN <<StageRun("wide", s1, s2)>> ELSE <<>>)
            \o (IF StageNeeded(s2) THEN <<StageRun("alt", s2, AltStage(s2, alt))>> ELSE <<>>)

----------------------------------------------------------------------------
(* NotificationManager: the diff of one user's fetch against the cache *)

Today(t) == t \div DAY                      \* the date of datetime.now(self.tz)

\* current_events_map: a dict keeps the position of a key's first insertion and
\* the value of its last; events without a uid are left out
RECURSIVE CurrentEventsMap(_, _, _)
CurrentEventsMap(events, i, d) ==
    IF i > Len(events) THEN d
    ELSE LET e == events[i]
         IN IF e.uid = "" THEN CurrentEventsMap(events, i + 1, d)
            ELSE IF e.uid \in DOMAIN d.val
            THEN CurrentEventsMap(events, i + 1, [d EXCEPT !.val[e.uid] = e])
            ELSE CurrentEventsMap(events, i + 1,
                     [keys |-> Append(d.keys, e.uid), val |-> (e.uid :> e) @@ d.val])

EmptyDict == [keys |-> <<>>, val |-> <<>>]

\* _get_cached_events_map: the uids of the user's rows whose start_time lies in
\* [today 00:00:00, tomorrow 23:59:59]
CachedEventsKeys(rows, today) ==
    {uid \in UIDs : /\ rows[uid] # NoRow
                    /\ rows[uid].start >= today * DAY
                    /\ rows[uid].start <= (today + 1) * DAY + 23 * HOUR + 59 * MINUTE + 59}

\* _is_today_or_tomorrow, for a start_time that parses
IsTodayOrTomorrow(event, today) == Today(event.start) \in {today, today + 1}

\* a comparison that keeps the seconds
SecondOf(t) == t

\* datetime.replace(second=0, microsecond=0)
MinuteOf(t) == t - (t % MINUTE)

\* a comparison of the stored hash with the hash of the current event
EventChangedHash(cached, current) == cached.hash # <<"md5", current>>

\* _event_changed_time
EventChangedTime(cached, current) ==
    IF current.start = NoTime \/ current.end = NoTime THEN FALSE
    ELSE ~(/\ MinuteOf(cached.start) = MinuteOf(current.start)
           /\ MinuteOf(cached.end) = MinuteOf(current.end))

\* a loop without the branch "cached CANCELLED, current not CANCELLED"
DiffKindWithoutUncancel(cached, event) ==
    IF cached = NoRow
    THEN IF event.status # "CANCELLED" THEN "NEW" ELSE "NONE"
    ELSE IF cached.status # "CANCELLED" /\ event.status = "CANCELLED" THEN "CANCELLED"
    ELSE IF cached.status # "CANCELLED" /\ event.status # "CANCELLED"
            /\ event.start # NoTime /\ event.end # NoTime
            /\ (cached.start \div MINUTE # event.start \div MINUTE
                \/ cached.end \div MINUTE # event.end \div MINUTE) THEN "RESCHEDULED"
    ELSE "NONE"

\* the branch of the per-event loop: which notification is attempted for a current
\* event, given its cached row (NoRow when the cached map has no entry)
DiffKind(cached, event) ==
    IF cached = NoRow
    THEN IF event.status # "CANCELLED" THEN "NEW" ELSE "NONE"
    ELSE IF cached.status = "CANCELLED" /\ event.status # "CANCELLED" THEN "NEW"
    ELSE IF cached.status # "CANCELLED" /\ event.status = "CANCELLED" THEN "CANCELLED"
    ELSE IF event.status # "CANCELLED" /\ EventChangedTime(cached, event) THEN "RESCHEDULED"
    ELSE "NONE"

\* _notify_new_meeting / _notify_rescheduled_meeting build the message from the
\* event's start_time and end_time (an exception there is swallowed), then
\* get_channel_id and send_message must both succeed; _notify_cancelled_meeting
\* builds it from the cached row
Delivered(kind, event, up) ==
    IF kind = "CANCELLED" THEN up
    ELSE up /\ event.start # NoTime /\ event.end # NoTime

\* the loop "for uid, event in current_events_map.items()", from key i on
RECURSIVE DiffLoop(_, _, _, _, _, _)
DiffLoop(cur, cachedKeys, rows, today, dlv, st) ==
    IF st.i > Len(cur.keys) THEN st
    ELSE LET uid == cur.keys[st.i]
             event == cur.val[uid]
             next == [st EXCEPT !.i = @ + 1]
         IN IF event.start = NoTime
            THEN [st EXCEPT !.raised = TRUE]          \* fromisoformat('') raises
            ELSE IF ~IsTodayOrTomorrow(event, today)
            THEN DiffLoop(cur, cachedKeys, rows, today, dlv, next)
            ELSE LET cached == IF uid \in cachedKeys THEN rows[uid] ELSE NoRow
                     kind == DiffKind(cached, event)
                     seen == [next EXCEPT !.relevant = @ \cup {uid}]
                 IN DiffLoop(cur, cachedKeys, rows, today, dlv,
                        IF kind = "NONE" THEN seen
                        ELSE [seen EXCEPT !.sent = Append(@,
                                [kind |-> kind, uid |-> uid, implicit |-> FALSE,
                                 cached |-> cached.status,
                                 delivered |-> Delivered(kind, event, dlv[uid])])])

\* a guard that does not read last_events_ok
ImplicitBranchUntrusted(request_ok, cachedKeys) == cachedKeys # {}

\* the guard of the implicit-disappearance branch
ImplicitBranchEnabled(request_ok, cachedKeys) == request_ok /\ cachedKeys # {}

\* a missing set that keeps the uids the loop handled
MissingUidsAll(cachedKeys, relevant) == cachedKeys

\* missing_uids
MissingUids(cachedKeys, relevant) == cachedKeys \ relevant

\* the loop "for missing_uid in missing_uids" in the order ord of the set
RECURSIVE ImplicitLoop(_, _, _, _)
ImplicitLoop(ord, i, dlv, st) ==
    IF i > Len(ord) THEN st
    ELSE LET uid == ord[i]
         IN IF st.rows[uid].status = "CANCELLED"
            THEN ImplicitLoop(ord, i + 1, dlv, st)
            ELSE ImplicitLoop(ord, i + 1, dlv,
                    [st EXCEPT
                        !.sent = Append(@, [kind |-> "CANCELLED", uid |-> uid,
                                            implicit |-> TRUE,
                                            cached |-> st.rows[uid].status,
                                            delivered |-> dlv[uid]]),
                        \* _mark_event_cancelled
                        !.rows[uid].status = "CANCELLED"])

\* CalDAVManager.hash_event: the digest of the event dict's JSON text
HashEvent(event) == <<"md5", event>>

\* an upsert that leaves title, description, location, organizer and attendees
\* as a first sighting wrote them
RowWithoutDetails(event) ==
    [status |-> event.status, start |-> event.start, end |-> event.end,
     details |-> "d0", hash |-> HashEvent(event)]

\* the columns _update_events_cache assigns from one event
Row(event) ==
    [status |-> event.status, start |-> event.start, end |-> event.end,
     details |-> event.details, hash |-> HashEvent(event)]

\* an upsert that commits event by event: the rows of the events that parse are
\* written although the call raises
UpdateEventsCachePerEvent(rows, cur) ==
    [rows |-> [uid \in UIDs |->
                 IF uid \in DOMAIN cur.val /\ cur.val[uid].start # NoTime
                    /\ cur.val[uid].end # NoTime
                 THEN Row(cur.val[uid])
                 ELSE rows[uid]],
     raised |-> \E uid \in DOMAIN cur.val :
                    cur.val[uid].start = NoTime \/ cur.val[uid].end = NoTime]

\* _update_events_cache: one session, committed after the last event
UpdateEventsCache(rows, cur) ==
    IF \E uid \in DOMAIN cur.val : cur.val[uid].start = NoTime \/ cur.val[uid].end = NoTime
    THEN [rows |-> rows, raised |-> TRUE]          \* no commit: the session is dropped
    ELSE [rows |-> [uid \in UIDs |->
                      IF uid \in DOMAIN cur.val
                      THEN Row(cur.val[uid])
                      ELSE rows[uid]],
          raised |-> FALSE]

Orderings(S) == {o \in [1..Cardinality(S) -> S] : \A i, j \in 1..Cardinality(S) : i # j => o[i] # o[j]}

\* lines 48-103 of check_and_notify for one user: fetch result, diff, implicit
\* disappearance, cache update.  order is the iteration order of the set missing_uids.
UserDiff(rows, fetch, today, dlv, order) ==
    LET cur == CurrentEventsMap(fetch.events, 1, EmptyDict)
        cachedKeys == CachedEventsKeys(rows, today)
        loop == DiffLoop(cur, cachedKeys, rows, today, dlv,
                         [i |-> 1, sent |-> <<>>, relevant |-> {}, raised |-> FALSE])
        missing == IF ~loop.raised /\ ImplicitBranchEnabled(fetch.ok, cachedKeys)
                   THEN MissingUids(cachedKeys, loop.relevant) ELSE {}
        IsMissing(uid) == uid \in missing
        impl == ImplicitLoop(SelectSeq(order, IsMissing), 1, dlv,
                             [sent |-> loop.sent, rows |-> rows])
        upd == UpdateEventsCache(impl.rows, cur)
    IN IF loop.raised
       THEN [rows |-> rows, sent |-> loop.sent, relevant |-> loop.relevant,
             missing |-> {}, upserted |-> {}, raised |-> "diff"]
       ELSE [rows |-> upd.rows, sent |-> impl.sent, relevant |-> loop.relevant,
             missing |-> missing,
             upserted |-> IF upd.raised THEN {} ELSE DOMAIN cur.val,
             raised |-> IF upd.raised THEN "cache" ELSE "none"]

----------------------------------------------------------------------------
(* NotificationManager._check_reminders *)

Max2(a, b) == IF a > b THEN a ELSE b

\* check_window
CheckWindow == Max2(5, CHECK_INTERVAL)

\* 0 <= (t - now).total_seconds() < check_window
InCheckWindow(t, clock) == 0 <= t - clock /\ t - clock < CheckWindow

Reminder(uid, kind, at) == [uid |-> uid, kind |-> kind, at |-> at]

\* the loop "for alarm_iso in alarms" from alarm i on: the index of the first alarm
\* inside the window (the loop breaks there), 0 when there is none; an alarm that
\* does not parse is skipped
RECURSIVE FirstAlarm(_, _, _)
FirstAlarm(alarms, i, clock) ==
    IF i > Len(alarms) THEN 0
    ELSE IF alarms[i] # NoTime /\ InCheckWindow(alarms[i], clock) THEN i
    ELSE FirstAlarm(alarms, i + 1, clock)

\* the start-of-meeting notice of an event
StartNotice(event, clock) ==
    IF InCheckWindow(event.start, clock)
    THEN <<Reminder(event.uid, "START", event.start)>> ELSE <<>>

\* a fallback that does not look at the alarm list
LeadAlways(event) == REMINDER_MINUTES > 0

\* the lead-time fallback is taken for this event
LeadApplies(event) == REMINDER_MINUTES > 0 /\ event.alarms = <<>>

\* a body that goes on to the start notice after an alarm reminder
EventRemindersNoContinue(event, clock) ==
    (IF FirstAlarm(event.alarms, 1, clock) # 0
     THEN <<Reminder(event.uid, "ALARM", event.alarms[FirstAlarm(event.alarms, 1, clock)])>>
     ELSE <<>>) \o StartNotice(event, clock)

\* the body of the loop "for event in events": the messages sent for one event
EventReminders(event, clock) ==
    IF FirstAlarm(event.alarms, 1, clock) # 0
    THEN <<Reminder(event.uid, "ALARM", event.alarms[FirstAlarm(event.alarms, 1, clock)])>>
    ELSE IF LeadApplies(event)
            /\ InCheckWindow(event.start - REMINDER_MINUTES * MINUTE, clock)
    THEN <<Reminder(event.uid, "LEAD", event.start - REMINDER_MINUTES * MINUTE)>>
    ELSE StartNotice(event, clock)

\* the loop "for event in events" from key i on; fromisoformat('') of a start_time
\* raises and ends the call with what was sent
RECURSIVE ReminderLoop(_, _, _, _)
ReminderLoop(cur, i, clock, acc) ==
    IF i > Len(cur.keys) THEN acc
    ELSE IF cur.val[cur.keys[i]].start = NoTime THEN acc
    ELSE ReminderLoop(cur, i + 1, clock, acc \o EventReminders(cur.val[cur.keys[i]], clock))

\* _check_reminders: the messages sent, in order; none without a channel
CheckReminders(cur, clock, channel) ==
    IF ~channel THEN <<>> ELSE ReminderLoop(cur, 1, clock, <<>>)

----------------------------------------------------------------------------
(* NotificationManager._maybe_send_daily_digest *)

\* a check that finds no row
DigestNeverLogged(log, user, date) == FALSE

\* _digest_already_sent
DigestAlreadySent(log, user, date) == <<user, date>> \in log

\* what the collaborators do when the digest is due: get_channel_id finds a channel
\* or not, send_message posts or fails, the commit of _mark_digest_sent succeeds or
\* raises
DigestOutcomes ==
    {[channel |-> FALSE, send |-> FALSE, mark |-> FALSE]}
    \cup {[channel |-> TRUE, send |-> s, mark |-> m] : s, m \in BOOLEAN}
NoDigestOutcome == [channel |-> FALSE, send |-> FALSE, mark |-> FALSE]
DigestWorks == {[channel |-> TRUE, send |-> TRUE, mark |-> TRUE]}

DigestDue(log, user, t) ==
    /\ t >= Today(t) * DAY + DAILY_DIGEST_HOUR * HOUR
    /\ ~DigestAlreadySent(log, user, Today(t))

\* the digest step: [log, tried (send_message was called), delivered]
MaybeSendDailyDigest(log, user, t, out) ==
    IF ~DigestDue(log, user, t) \/ ~out.channel
    THEN [log |-> log, tried |-> FALSE, delivered |-> FALSE]
    ELSE [log |-> IF out.mark THEN log \cup {<<user, Today(t)>>} ELSE log,
          tried |-> TRUE, delivered |-> out.send]

----------------------------------------------------------------------------
(* The tick loop *)

NoEvent == Event("", "NONE", NoTime, NoTime)
NoStreak == [ev |-> NoEvent, news |-> 0]

NoLast ==
    [ran |-> FALSE, user |-> "", today |-> 0, events |-> <<>>, ok |-> FALSE,
     anyCall |-> FALSE, sent |-> <<>>, relevant |-> {}, missing |-> {}, raised |-> "none",
     digestTried |-> FALSE, digestDelivered |-> FALSE,
     clock |-> 0, remCalled |-> FALSE, remChannel |-> FALSE, reminders |-> <<>>,
     log |-> <<>>, failed |-> {}]

NoProbe == [done |-> FALSE, startSec |-> 0, endSec |-> 0, shift |-> 0, kind |-> "NONE"]

Init ==
    /\ now = 0
    /\ pos = 0
    /\ cache = [u \in Users |-> [uid \in UIDs |-> NoRow]]
    /\ digestLog = {}
    /\ last = NoLast
    /\ streak = [u \in Users |-> [uid \in UIDs |-> NoStreak]]
    /\ digestDone = {}
    /\ tombstoned = {}
    /\ probe = NoProbe
    /\ fired = {}
    /\ running = TRUE

\* a loop that does not wait for check_and_notify to return
TickMayStartInFlight(p, r) == r

\* the loop is at _sleep_until only after check_and_notify has returned, and goes
\* on to the tick only while self.running
TickMayStart(p, r) == p = 0 /\ r

\* check_notifications_loop: _sleep_until(next_tick), then the users are read and
\* check_and_notify starts on the list reg
StartTick(tods, reg) ==
    /\ TickMayStart(pos, running)
    /\ \E t \in TickTimes(tods) : t > now /\ now' = t
    /\ pos' = IF Len(reg) = 0 THEN 0 ELSE 1
    /\ last' = NoLast
    /\ UNCHANGED <<cache, digestLog, streak, digestDone, tombstoned, probe, fired, running>>

\* number of NEW notices delivered for uid in a list of notices
RECURSIVE NewCount(_, _, _)
NewCount(sent, uid, i) ==
    IF i > Len(sent) THEN 0
    ELSE NewCount(sent, uid, i + 1)
         + (IF sent[i].kind = "NEW" /\ sent[i].uid = uid /\ sent[i].delivered THEN 1 ELSE 0)

\* the event a fetch holds for uid when its status is not CANCELLED, else NoEvent
HeldEvent(events, uid) ==
    LET cur == CurrentEventsMap(events, 1, EmptyDict)
    IN IF uid \in DOMAIN cur.val /\ cur.val[uid].status # "CANCELLED"
       THEN cur.val[uid] ELSE NoEvent

AtMost(n, cap) == IF n > cap THEN cap ELSE n

NextStreak(old, events, sent, uid) ==
    LET held == HeldEvent(events, uid)
        k == NewCount(sent, uid, 1)
    IN IF held = NoEvent THEN NoStreak
       ELSE IF old.ev = held THEN [ev |-> held, news |-> AtMost(old.news + k, MaxNews)]
       ELSE [ev |-> held, news |-> AtMost(k, MaxNews)]

\* a loop that ends at the first user
EndOfList(p, n) == 0

\* "for user in users": the position after the iteration of user p of n, whether
\* it ended normally, by continue or in the except clause
NextPos(p, n) == IF p = n THEN 0 ELSE p + 1

\* one iteration of "for user in users" whose password cannot be decrypted
SkipUser(reg) ==
    /\ pos \in 1..Len(reg)
    /\ pos' = NextPos(pos, Len(reg))
    /\ last' = [NoLast EXCEPT !.user = reg[pos], !.today = Today(now),
                              !.failed = last.failed \cup {reg[pos]}]
    /\ fired' = {f \in fired : f[1] # reg[pos]}
    /\ UNCHANGED <<now, cache, digestLog, streak, digestDone, tombstoned, probe, running>>

CanonicalOrder == CHOOSE o \in Orderings(UIDs) : TRUE

AllDelivered == [uid \in UIDs |-> TRUE]

\* the operations of the per-event loop and of the implicit branch, in order: a
\* notification attempt per notice, and _mark_event_cancelled after the attempt of
\* an implicit one
RECURSIVE DiffLog(_, _)
DiffLog(sent, i) ==
    IF i > Len(sent) THEN <<>>
    ELSE (IF sent[i].implicit THEN <<"diff", "flip">> ELSE <<"diff">>) \o DiffLog(sent, i + 1)

RECURSIVE Repeat(_, _)
Repeat(x, n) == IF n = 0 THEN <<>> ELSE <<x>> \o Repeat(x, n - 1)

\* an iteration that checks the reminders before the diff
RemindersFirstLog(diff, reminders, digestTried) ==
    Repeat("reminder", Len(reminders))
    \o DiffLog(diff.sent, 1)
    \o (IF diff.upserted # {} THEN <<"upsert">> ELSE <<>>)
    \o (IF digestTried THEN <<"digest">> ELSE <<>>)

\* the operations of one iteration in the order of the statements of
\* check_and_notify: per-event loop and implicit branch, _update_events_cache,
\* _check_reminders, _maybe_send_daily_digest
IterationLog(diff, reminders, digestTried) ==
    DiffLog(diff.sent, 1)
    \o (IF diff.upserted # {} THEN <<"upsert">> ELSE <<>>)
    \o Repeat("reminder", Len(reminders))
    \o (IF digestTried THEN <<"digest">> ELSE <<>>)

\* the alarm reminders of a list of messages, as <<user, uid, alarm>>
AlarmsFired(user, reminders) ==
    {<<user, reminders[i].uid, reminders[i].at>> :
        i \in {j \in 1..Len(reminders) : reminders[j].kind = "ALARM"}}

\* the rest of an iteration, given what get_events returned.  The inputs that the
\* iteration does not read take one value: the delivery of a notice that is not
\* attempted, the order of a set of fewer than two uids, the digest's collaborators
\* when no digest is due, the reminders' channel when no reminder is due.
Iteration(user, fetch, delays, digests) ==
    \E plain \in {UserDiff(cache[user], fetch, Today(now), AllDelivered, CanonicalOrder)} :
    \E cur \in {CurrentEventsMap(fetch.events, 1, EmptyDict)} :
    \E order \in (IF Cardinality(plain.missing) < 2 THEN {CanonicalOrder} ELSE Orderings(UIDs)),
       dlv \in {f \in [UIDs -> BOOLEAN] :
                  \A uid \in UIDs \ {plain.sent[i].uid : i \in 1..Len(plain.sent)} : f[uid]},
       out \in (IF plain.raised = "none" /\ DigestDue(digestLog, user, now)
                THEN digests ELSE {NoDigestOutcome}),
       delay \in delays :
    \E channel \in (IF plain.raised = "none" /\ CheckReminders(cur, now + delay, TRUE) # <<>>
                    THEN BOOLEAN ELSE {TRUE}) :
    \E diff \in {UserDiff(cache[user], fetch, Today(now), dlv, order)} :
    \E rem \in {IF diff.raised = "none"
                THEN CheckReminders(cur, now + delay, channel) ELSE <<>>} :
    \E dig \in {IF diff.raised = "none"
                THEN MaybeSendDailyDigest(digestLog, user, now, out)
                ELSE [log |-> digestLog, tried |-> FALSE, delivered |-> FALSE]} :
           /\ cache' = [cache EXCEPT ![user] = diff.rows]
           /\ digestLog' = dig.log
           /\ last' = [ran |-> TRUE, user |-> user, today |-> Today(now),
                       events |-> fetch.events, ok |-> fetch.ok,
                       anyCall |-> fetch.anyCall,
                       sent |-> diff.sent, relevant |-> diff.relevant,
                       missing |-> diff.missing, raised |-> diff.raised,
                       digestTried |-> dig.tried,
                       digestDelivered |-> dig.delivered,
                       clock |-> now + delay,
                       remCalled |-> diff.raised = "none",
                       remChannel |-> diff.raised = "none" /\ channel,
                       reminders |-> rem,
                       log |-> IterationLog(diff, rem, dig.tried),
                       failed |-> IF diff.raised = "none" /\ fetch.anyCall
                                  THEN last.failed ELSE last.failed \cup {user}]
           /\ streak' = [streak EXCEPT ![user] =
                           [uid \in UIDs |->
                              NextStreak(streak[user][uid], fetch.events, diff.sent, uid)]]
           /\ digestDone' = IF dig.delivered
                            THEN digestDone \cup {<<user, Today(now)>>}
                            ELSE digestDone
           /\ tombstoned' =
                (tombstoned \cup {<<user, diff.sent[i].uid>> :
                                    i \in {j \in 1..Len(diff.sent) : diff.sent[j].implicit}})
                \ {<<user, uid>> : uid \in diff.upserted}
           /\ fired' = {f \in fired \cup AlarmsFired(user, rem) :
                          f[1] = user => f[2] \in DOMAIN cur.val}
           /\ UNCHANGED <<probe, running>>

\* whether some REPORT of a stage answered 200/207
StageSucceeded(cals, resp) == \E i \in 1..Len(cals) : resp[cals[i]].ok

\* what get_events returned, with the history flag anyCall: some underlying call
\* (a REPORT, or the alternate client's date_search) succeeded
Fetched(result, anyCall) ==
    [events |-> result.events, ok |-> result.ok, anyCall |-> anyCall]

\* the answers of a REPORT stage, one per calendar, and of the alternate client
ReportAnswers == [Calendars -> ReportResponses(ReportLists)]
AltAnswers == AltResponses(AltLists)
FewReportAnswers == [Calendars -> ReportResponses(FewReportLists)]
FewAltAnswers == AltResponses(FewAltLists)
ReminderReportAnswers == [Calendars -> ReportResponses(ReminderReportLists)]
ReminderAltAnswers == AltResponses(ReminderAltLists)
TwoUserReportAnswers == [Calendars -> ReportResponses(TwoUserReportLists)]
TwoUserAltAnswers == AltResponses(TwoUserAltLists)

\* one iteration of "for user in users" of check_and_notify on the list reg; a
\* REPORT stage is answered from reports, the alternate client from alts
ProcessUser(reports, alts, delays, digests, reg) ==
    /\ pos \in 1..Len(reg)
    /\ pos' = NextPos(pos, Len(reg))
    /\ UNCHANGED now
    /\ \E cals \in CalendarLists :
         IF cals = <<>>
         THEN Iteration(reg[pos], Fetched(GetEvents(cals, <<>>, <<>>, AltFailed), FALSE),
                        delays, digests)
         ELSE \E prim \in reports :
                IF ReportStage(cals, prim, 1, FetchStart).events # <<>>
                THEN Iteration(reg[pos],
                               Fetched(GetEvents(cals, prim, prim, AltFailed),
                                       StageSucceeded(cals, prim)),
                               delays, digests)
                ELSE \E wide \in reports :
                       IF GetEvents(cals, prim, wide, AltFailed).events # <<>>
                       THEN Iteration(reg[pos],
                                      Fetched(GetEvents(cals, prim, wide, AltFailed),
                                              \/ StageSucceeded(cals, prim)
                                              \/ StageSucceeded(cals, wide)),
                                      delays, digests)
                       ELSE \E alt \in alts :
                              Iteration(reg[pos],
                                        Fetched(GetEvents(cals, prim, wide, alt),
                                                \/ StageSucceeded(cals, prim)
                                                \/ StageSucceeded(cals, wide)
                                                \/ alt.kind = "ok"),
                                        delays, digests)

\* the diff engine, on ticks before the digest hour
Next ==
    \/ StartTick(MorningTods, RegUsers)
    \/ SkipUser(RegUsers)
    \/ ProcessUser(ReportAnswers, AltAnswers, NoDelay, DigestOutcomes, RegUsers)

Spec == Init /\ [][Next]_vars

\* the digest, on ticks across the digest hour and a few fetch results
NextDigest ==
    \/ StartTick(DigestTods, RegUsers)
    \/ SkipUser(RegUsers)
    \/ ProcessUser(FewReportAnswers, FewAltAnswers, NoDelay, DigestOutcomes, RegUsers)

SpecDigest == Init /\ [][NextDigest]_vars

\* the reminders, on the ticks around the lead time and the start of the events
NextReminders ==
    \/ StartTick(ReminderTods, RegUsers)
    \/ SkipUser(RegUsers)
    \/ ProcessUser(ReminderReportAnswers, ReminderAltAnswers, Delays, DigestWorks, RegUsers)

SpecReminders == Init /\ [][NextReminders]_vars

\* two users, a few fetch results
NextUsers ==
    \/ StartTick(TwoUserTods, TwoUsers)
    \/ SkipUser(TwoUsers)
    \/ ProcessUser(TwoUserReportAnswers, TwoUserAltAnswers, NoDelay, DigestOutcomes, TwoUsers)

SpecUsers == Init /\ [][NextUsers]_vars

\* the cache rows, on fetches with edited, repeated and uid-less events
NextRows ==
    \/ StartTick(MorningTods, RegUsers)
    \/ SkipUser(RegUsers)
    \/ ProcessUser([Calendars -> ReportResponses(RowsReportLists)], AltResponses({<<>>}),
                   NoDelay, DigestOutcomes, RegUsers)

SpecRows == Init /\ [][NextRows]_vars

\* Bot.stop sets self.running to False
Stop ==
    /\ running
    /\ running' = FALSE
    /\ UNCHANGED <<now, pos, cache, digestLog, last, streak, digestDone, tombstoned,
                   probe, fired>>

\* the task of check_notifications_loop is cancelled: CancelledError leaves
\* check_and_notify at its next await, and run_main_loop clears self.running
Cancel ==
    /\ running
    /\ running' = FALSE
    /\ pos' = 0
    /\ last' = [last EXCEPT !.ran = FALSE]
    /\ UNCHANGED <<now, cache, digestLog, streak, digestDone, tombstoned, probe, fired>>

\* two users and the shutdown signals
NextShutdown ==
    \/ StartTick(TwoUserTods, TwoUsers)
    \/ SkipUser(TwoUsers)
    \/ ProcessUser(TwoUserReportAnswers, TwoUserAltAnswers, NoDelay, DigestOutcomes, TwoUsers)
    \/ Stop
    \/ Cancel

SpecShutdown == Init /\ [][NextShutdown]_vars

----------------------------------------------------------------------------
(* The time comparison of the diff, applied to one cached row and one event *)

Seconds == 0..(MINUTE - 1)
Shifts == {MINUTE \div 2, MINUTE + 1}

ProbeCached(p) ==
    Row(Event("a", "CONFIRMED", T0 + p.startSec, T0 + Duration + p.endSec))
ProbeCurrent(p) ==
    Event("a", "CONFIRMED", ProbeCached(p).start + p.shift, ProbeCached(p).end + p.shift)

InitTimes ==
    /\ now = 0
    /\ pos = 0
    /\ cache = [u \in Users |-> [uid \in UIDs |-> NoRow]]
    /\ digestLog = {}
    /\ last = NoLast
    /\ streak = [u \in Users |-> [uid \in UIDs |-> NoStreak]]
    /\ digestDone = {}
    /\ tombstoned = {}
    /\ fired = {}
    /\ running = TRUE
    /\ probe \in {[done |-> FALSE, startSec |-> s, endSec |-> e, shift |-> d, kind |-> "NONE"] :
                     s \in Seconds, e \in Seconds, d \in Shifts}

\* the branch of the per-event loop for a cached non-cancelled row and the
\* current event of the same uid
CompareTimes ==
    /\ ~probe.done
    /\ probe' = [probe EXCEPT !.done = TRUE,
                              !.kind = DiffKind(ProbeCached(probe), ProbeCurrent(probe))]
    /\ UNCHANGED <<now, pos, cache, digestLog, last, streak, digestDone, tombstoned,
                   fired, running>>

NextTimes == CompareTimes

SpecTimes == InitTimes /\ [][NextTimes]_vars

----------------------------------------------------------------------------
(* get_events on its own: one call on every combination of stage answers *)

\* discovered calendars and the answers of the three stages
FetchCalendars == {"c1", "c2"}
FetchCalendarLists == {<<>>, <<"c1">>, <<"c1", "c2">>}
FetchPrimaryLists == {<<>>, <<Event("a", "CONFIRMED", T0, T0 + Duration)>>}
FetchWideLists == {<<>>, <<Event("b", "CONFIRMED", T0 + DAY, T0 + DAY + Duration)>>}
FetchAltLists == {<<>>, <<Event("a", "CANCELLED", T0, NoTime)>>}

InitFetch ==
    /\ now = 0
    /\ pos = 0
    /\ cache = [u \in Users |-> [uid \in UIDs |-> NoRow]]
    /\ digestLog = {}
    /\ last = NoLast
    /\ streak = [u \in Users |-> [uid \in UIDs |-> NoStreak]]
    /\ digestDone = {}
    /\ tombstoned = {}
    /\ fired = {}
    /\ running = TRUE
    /\ probe \in {[done |-> FALSE, cals |-> c, prim |-> p, wide |-> w, alt |-> a,
                    result |-> FetchStart, stages |-> <<>>] :
                     c \in FetchCalendarLists,
                     p \in [FetchCalendars -> ReportResponses(FetchPrimaryLists)],
                     w \in [FetchCalendars -> ReportResponses(FetchWideLists)],
                     a \in AltResponses(FetchAltLists)}

\* one call of get_events
CallGetEvents ==
    /\ ~probe.done
    /\ probe' = [probe EXCEPT
                    !.done = TRUE,
                    !.result = GetEvents(probe.cals, probe.prim, probe.wide, probe.alt),
                    !.stages = GetEventsStages(probe.cals, probe.prim, probe.wide, probe.alt)]
    /\ UNCHANGED <<now, pos, cache, digestLog, last, streak, digestDone, tombstoned,
                   fired, running>>

NextFetch == CallGetEvents

SpecFetch == InitFetch /\ [][NextFetch]_vars

----------------------------------------------------------------------------
(* CalDAVManager._parse_events on its own: one call on every payload *)

\* how a VEVENT block writes DTSTART and DTEND: no VEVENT block at all,
\* 20251122T101500, 20251122T1015, 20251122T101500Z, or ;VALUE=DATE:20251122
TimeForms == {"none", "seconds", "minutes", "utc", "date"}

\* a calendar-data block: does Calendar.from_ical accept it, and the VEVENT it
\* holds (with UID, SUMMARY, DTSTART and DTEND lines)
IcalBlocks == [strict : BOOLEAN, vevent : TimeForms]

\* a REPORT response: does ET.fromstring accept the document, and its
\* calendar-data blocks
Payloads ==
    [xml : BOOLEAN, blocks : {<<>>} \cup {<<b>> : b \in IcalBlocks}
                                   \cup {<<b, c>> : b, c \in IcalBlocks}]

\* the record of a VEVENT
ParsedEvent(via) ==
    [uid |-> "a", title |-> "t", start |-> T0, end |-> T0 + Duration, via |-> via]

\* the loop over the calendar-data blocks from block i on: a block that from_ical
\* rejects twice is passed over, the VEVENT components of the others are built
RECURSIVE StructuredEvents(_, _)
StructuredEvents(blocks, i) ==
    IF i > Len(blocks) THEN <<>>
    ELSE (IF blocks[i].strict /\ blocks[i].vevent # "none"
          THEN <<ParsedEvent("structured")>> ELSE <<>>)
         \o StructuredEvents(blocks, i + 1)

\* datetime.strptime with "%Y%m%dT%H%M%S" or "%Y%m%dT%H%M" reads the value that
\* rex_tz found
StrptimeParses(form) == form \in {"seconds", "minutes"}

\* the regex pass over ical_blocks from block i on: a record for every
\* BEGIN:VEVENT..END:VEVENT whose DTSTART and DTEND both parse
RECURSIVE RegexFallback(_, _)
RegexFallback(blocks, i) ==
    IF i > Len(blocks) THEN <<>>
    ELSE (IF blocks[i].vevent # "none" /\ StrptimeParses(blocks[i].vevent)
          THEN <<ParsedEvent("textual")>> ELSE <<>>)
         \o RegexFallback(blocks, i + 1)

\* _parse_events: ET.fromstring raising ends in the outer except with no events;
\* the regex pass runs when the structured loop gave none
ParseEvents(payload) ==
    IF ~payload.xml THEN <<>>
    ELSE IF StructuredEvents(payload.blocks, 1) # <<>>
    THEN StructuredEvents(payload.blocks, 1)
    ELSE RegexFallback(payload.blocks, 1)

InitParse ==
    /\ now = 0
    /\ pos = 0
    /\ cache = [u \in Users |-> [uid \in UIDs |-> NoRow]]
    /\ digestLog = {}
    /\ last = NoLast
    /\ streak = [u \in Users |-> [uid \in UIDs |-> NoStreak]]
    /\ digestDone = {}
    /\ tombstoned = {}
    /\ fired = {}
    /\ running = TRUE
    /\ probe \in {[done |-> FALSE, payload |-> p, events |-> <<>>] : p \in Payloads}

\* one call of _parse_events
CallParseEvents ==
    /\ ~probe.done
    /\ probe' = [probe EXCEPT !.done = TRUE, !.events = ParseEvents(probe.payload)]
    /\ UNCHANGED <<now, pos, cache, digestLog, last, streak, digestDone, tombstoned,
                   fired, running>>

NextParse == CallParseEvents

SpecParse == InitParse /\ [][NextParse]_vars

----------------------------------------------------------------------------
(* The zone of a cached time: one event stored by a tick and compared by the next *)

\* the state of a specification that applies functions to inputs drawn from S
InitProbe(S) ==
    /\ now = 0
    /\ pos = 0
    /\ cache = [u \in Users |-> [uid \in UIDs |-> NoRow]]
    /\ digestLog = {}
    /\ last = NoLast
    /\ streak = [u \in Users |-> [uid \in UIDs |-> NoStreak]]
    /\ digestDone = {}
    /\ tombstoned = {}
    /\ fired = {}
    /\ running = TRUE
    /\ probe \in S

\* UTC offset of the zone a DTSTART names minus that of the configured zone, in
\* seconds (0: the configured zone, or no TZID)
ZoneOffsets == {0, HOUR, 0 - 2 * HOUR}

\* the start_time a fetch stage returns for wall-clock time wall in a zone off
\* seconds ahead: the structured parse and the alternate client convert to the
\* configured zone (astimezone), the regex pass localizes in the TZID's zone
StageTime(stage, wall, off) ==
    IF stage = "textual" THEN [wall |-> wall, off |-> off]
    ELSE [wall |-> wall - off, off |-> 0]

\* the DateTime column keeps the wall-clock fields of the value and gives back
\* a naive datetime
StoredTime(t) == t.wall

\* astimezone(self.tz) of an aware value, as seconds in the configured zone
LocalTime(t) == t.wall - t.off

\* the event of a probe as the diff reads it
ZoneEvent(p) ==
    Event("a", "CONFIRMED", LocalTime(StageTime(p.stage, p.wall, p.off)),
          LocalTime(StageTime(p.stage, p.wall + Duration, p.off)))

\* a tick stores the event: _update_events_cache
StoreEvent ==
    /\ probe.step = 0
    /\ probe' = [probe EXCEPT
                    !.step = 1,
                    !.row = Row(Event("a", "CONFIRMED",
                                StoredTime(StageTime(probe.stage, probe.wall, probe.off)),
                                StoredTime(StageTime(probe.stage, probe.wall + Duration,
                                                     probe.off))))]
    /\ UNCHANGED <<now, pos, cache, digestLog, last, streak, digestDone, tombstoned,
                   fired, running>>

\* the next tick fetches the same event and compares it with the row
CompareStored ==
    /\ probe.step = 1
    /\ probe' = [probe EXCEPT !.step = 2, !.kind = DiffKind(probe.row, ZoneEvent(probe))]
    /\ UNCHANGED <<now, pos, cache, digestLog, last, streak, digestDone, tombstoned,
                   fired, running>>

NextZones == StoreEvent \/ CompareStored

SpecZones ==
    InitProbe({[step |-> 0, stage |-> g, wall |-> T0 + k * MINUTE, off |-> o,
                row |-> NoRow, kind |-> "NONE"] :
                  g \in {"structured", "alt", "textual"}, k \in 0..5, o \in ZoneOffsets})
    /\ [][NextZones]_vars

----------------------------------------------------------------------------
(* CalDAVManager.get_calendars on its own: one call on every combination of answers *)

\* the fallback candidates, in the order of the list
Candidates == <<"principal/calendar/", "dav/email/calendar/", "dav/email/",
                "calendars/email/">>

\* an answer left as it came, a raised exception included
Uncaught(answer) == answer

\* the try/except around one request: an exception of the request (timeout,
\* connection error) or of the XML parser is logged and counts as a failed answer
Caught(answer) == IF answer.kind = "raise" THEN [answer EXCEPT !.kind = "failed"] ELSE answer

\* a probing that goes on after an answer
ProbeAll(probes, i) ==
    IF \E k \in i..Len(Candidates) : Caught(probes[k]).kind = "ok"
    THEN [found |-> CHOOSE k \in i..Len(Candidates) :
                       /\ Caught(probes[k]).kind = "ok"
                       /\ \A n \in (k + 1)..Len(Candidates) : Caught(probes[n]).kind # "ok",
          asked |-> Len(Candidates)]
    ELSE [found |-> 0, asked |-> Len(Candidates)]

\* the loop "for href in candidates" from candidate i on: the candidate returned
\* (0: none) and the number of candidates asked
RECURSIVE ProbeFrom(_, _)
ProbeFrom(probes, i) ==
    IF i > Len(Candidates) THEN [found |-> 0, asked |-> Len(Candidates)]
    ELSE IF Caught(probes[i]).kind = "ok" THEN [found |-> i, asked |-> i]
    ELSE ProbeFrom(probes, i + 1)

\* get_calendars: the list returned, the requests made in order, and whether an
\* exception left the call.  principal and root are the answers of the two
\* PROPFIND listings: the calendars of the body, read only from an answer 200/207
\* that parses, and for the principal whether an href ends in /calendars/
GetCalendars(principal, root, probes) ==
    LET first == IF Caught(principal).kind = "ok" THEN principal.cals ELSE <<>>
        second == Caught(principal).kind = "ok" /\ principal.root /\ first = <<>>
        listed == IF second /\ Caught(root).kind = "ok" THEN root.cals ELSE first
        IsMain(c) == c = "main"
        selected == IF SelectSeq(listed, IsMain) # <<>>
                    THEN SelectSeq(listed, IsMain) ELSE listed
        asked == <<"principal">> \o (IF second THEN <<"root">> ELSE <<>>)
        probed == ProbeFrom(probes, 1)
    IN IF Caught(principal).kind = "raise" \/ (second /\ Caught(root).kind = "raise")
       THEN [cals |-> <<>>, requests |-> asked, raised |-> TRUE]
       ELSE IF selected # <<>>
       THEN [cals |-> selected, requests |-> asked, raised |-> FALSE]
       ELSE [cals |-> IF probed.found = 0 THEN <<>> ELSE <<Candidates[probed.found]>>,
             requests |-> asked \o SubSeq(Candidates, 1, probed.asked),
             raised |-> \E k \in 1..probed.asked : Caught(probes[k]).kind = "raise"]

\* one call of get_calendars, and of get_events on its result with REPORTs that
\* would answer with an event for every calendar
CallGetCalendars ==
    /\ ~probe.done
    /\ probe' = [probe EXCEPT
                    !.done = TRUE,
                    !.out = GetCalendars(probe.principal, probe.root, probe.probes),
                    !.fetch =
                        GetEvents(GetCalendars(probe.principal, probe.root, probe.probes).cals,
                                  [c \in {"main", "work"} \cup {Candidates[k] : k \in 1..Len(Candidates)} |->
                                      [ok |-> TRUE,
                                       evs |-> <<Event("a", "CONFIRMED", T0, T0 + Duration)>>]],
                                  <<>>, AltFailed)]
    /\ UNCHANGED <<now, pos, cache, digestLog, last, streak, digestDone, tombstoned,
                   fired, running>>

SpecCalendars ==
    InitProbe({[done |-> FALSE, principal |-> p, root |-> r, probes |-> c,
                out |-> [cals |-> <<>>, requests |-> <<>>, raised |-> FALSE],
                fetch |-> FetchStart] :
                  p \in [kind : {"ok", "failed", "raise"},
                         cals : {<<>>, <<"work", "main">>}, root : BOOLEAN],
                  r \in [kind : {"ok", "failed", "raise"}, cals : {<<>>, <<"work">>}],
                  c \in [1..Len(Candidates) -> [kind : {"ok", "failed", "raise"}]]})
    /\ [][CallGetCalendars]_vars

----------------------------------------------------------------------------
(* Bot._next_schedule_tick on its own; times in milliseconds *)

\* a schedule that always takes the boundary after now
SlotAfter(clock, interval) == (clock \div interval) * interval + interval

\* _next_schedule_tick: the boundary at or before now when now is within the
\* tolerance of it, else the next one
NextScheduleTick(clock, interval) ==
    IF clock - (clock \div interval) * interval > TOLERANCE_MS
    THEN (clock \div interval) * interval + interval
    ELSE (clock \div interval) * interval

\* the loop computes next_tick and _sleep_until returns at once or at next_tick
CallNextScheduleTick ==
    /\ ~probe.done
    /\ probe' = [probe EXCEPT
                    !.done = TRUE,
                    !.tick = NextScheduleTick(probe.clock, probe.interval),
                    !.woke = Max2(probe.clock, NextScheduleTick(probe.clock, probe.interval))]
    /\ UNCHANGED <<now, pos, cache, digestLog, last, streak, digestDone, tombstoned,
                   fired, running>>

\* intervals of 1 s and 2 s, every millisecond of the first four seconds
SpecSchedule ==
    InitProbe({[done |-> FALSE, clock |-> c, interval |-> i * 1000, tick |-> 0, woke |-> 0] :
                  c \in 0..(4 * 1000), i \in 1..2})
    /\ [][CallNextScheduleTick]_vars

----------------------------------------------------------------------------
(* The normalization of one event: the field steps of _parse_events and the
   loop of get_today_meetings.  An address is the sequence of its pieces. *)

\* pieces an address value is made of
AddressPieces == {"mailto:", "MAILTO:", " ", "a@x"}

\* addr.strip(): without leading blanks (trailing ones go with split()[0])
RECURSIVE LStrip(_)
LStrip(addr) ==
    IF addr # <<>> /\ Head(addr) = " " THEN LStrip(Tail(addr)) ELSE addr

\* split()[0]: the pieces before the first blank
RECURSIVE FirstToken(_)
FirstToken(addr) ==
    IF addr = <<>> \/ Head(addr) = " " THEN <<>>
    ELSE <<Head(addr)>> \o FirstToken(Tail(addr))

\* attendee: one leading mailto: (any case) removed, then strip and split()[0]
StripAddress(addr) ==
    FirstToken(LStrip(IF addr # <<>> /\ Head(addr) \in {"mailto:", "MAILTO:"}
                      THEN Tail(addr) ELSE addr))

\* the fields of one event: summary and status default when missing (""), a
\* naive time is localized and an aware one converted to the configured zone,
\* the attendee is stripped; get_today_meetings defaults title and status
\* again and re-renders the times it parsed ("untitled" stands for the default title)
NormalizeEvent(ev) ==
    [title    |-> IF ev.title = "" THEN "untitled" ELSE ev.title,
     status   |-> IF ev.status = "" THEN "CONFIRMED" ELSE ev.status,
     start    |-> [wall |-> ev.start.wall - ev.start.off, off |-> 0],
     attendee |-> StripAddress(ev.attendee)]

\* the event list after normalization; get_today_meetings leaves out an
\* event whose status.upper() is CANCELLED
Normalize(events) ==
    SelectSeq([i \in 1..Len(events) |-> NormalizeEvent(events[i])],
              LAMBDA ev : ev.status \notin {"CANCELLED", "cancelled"})

\* raw events: addresses of up to three pieces
RawEvents ==
    [title : {"", "t"}, status : {"", "CANCELLED", "cancelled", "TENTATIVE"},
     start : {[wall |-> T0, off |-> off] : off \in ZoneOffsets},
     attendee : UNION {[1..n -> AddressPieces] : n \in 0..3}]

\* normalization applied to a one-event list, then to its own output
SpecNormalize ==
    InitProbe({[step |-> 0, list |-> <<ev>>, once |-> <<>>] : ev \in RawEvents})
    /\ [][/\ probe.step < 2
          /\ probe' = [probe EXCEPT !.step = @ + 1,
                                    !.once = probe.list,
                                    !.list = Normalize(probe.list)]
          /\ UNCHANGED <<now, pos, cache, digestLog, last, streak, digestDone,
                         tombstoned, fired, running>>]_vars

----------------------------------------------------------------------------
(* One user's diff over a fetch from two calendars, c1 holding a and c2 holding
   b, against a cache that holds both *)

\* the rows a complete earlier tick left
CachedBoth ==
    [uid \in UIDs |->
        IF uid = "a" THEN Row(Event("a", "CONFIRMED", T0, T0 + Duration))
        ELSE IF uid = "b" THEN Row(Event("b", "CONFIRMED", T0 + HOUR, T0 + HOUR + Duration))
        ELSE NoRow]

\* the answers of the two calendars to one REPORT stage
PartialAnswers ==
    [FetchCalendars ->
        ReportResponses({<<>>, <<Event("a", "CONFIRMED", T0, T0 + Duration)>>,
                         <<Event("b", "CONFIRMED", T0 + HOUR, T0 + HOUR + Duration)>>})]

\* get_events over both calendars, then the diff of check_and_notify
SpecPartial ==
    InitProbe({[done |-> FALSE, prim |-> p, wide |-> w, fetch |-> FetchStart, sent |-> <<>>] :
                  p \in PartialAnswers, w \in PartialAnswers})
    /\ [][/\ ~probe.done
          /\ \E fetch \in {GetEvents(<<"c1", "c2">>, probe.prim, probe.wide, AltFailed)} :
                probe' = [probe EXCEPT
                            !.done = TRUE,
                            !.fetch = fetch,
                            !.sent = UserDiff(CachedBoth, fetch, Today(T0), AllDelivered,
                                              CanonicalOrder).sent]
          /\ UNCHANGED <<now, pos, cache, digestLog, last, streak, digestDone,
                         tombstoned, fired, running>>]_vars

----------------------------------------------------------------------------
(* check_notifications_loop against the clock, in milliseconds: one event with
   one alarm is in every fetch *)

\* interval = max(1, Config.CHECK_INTERVAL)
IntervalMs == Max2(1, CHECK_INTERVAL) * 1000

\* the alarm's trigger time: five seconds after the third boundary
AlarmAt == 2 * IntervalMs + 5000

\* time check_and_notify spends before _check_reminders reads the clock, and
\* from there to its return (the last one overruns the interval)
BeforeNow == {0, 10000}
AfterNow == {20, 5000, IntervalMs + 10000}

\* _sleep_until(next_tick): returns at next_tick, or at once when it is past
SleepUntil ==
    /\ probe.phase = "sleep"
    /\ probe.clock < 4 * IntervalMs
    /\ probe' = [probe EXCEPT !.phase = "run",
                              !.clock = Max2(probe.clock, probe.tick),
                              !.started = probe.tick]
    /\ UNCHANGED <<now, pos, cache, digestLog, last, streak, digestDone, tombstoned,
                   fired, running>>

\* check_and_notify: _check_reminders reads the clock and fires the alarm inside
\* [now, now + check_window); then next_tick = _next_schedule_tick(interval)
TickOnce ==
    /\ probe.phase = "run"
    /\ \E d \in BeforeNow, r \in AfterNow :
          probe' = [probe EXCEPT
                      !.phase = "sleep",
                      !.read = probe.clock + d,
                      !.fired = @ \/ (/\ 0 <= AlarmAt - (probe.clock + d)
                                      /\ AlarmAt - (probe.clock + d) < CheckWindow * 1000),
                      !.clock = probe.clock + d + r,
                      !.tick = NextScheduleTick(probe.clock + d + r, IntervalMs)]
    /\ UNCHANGED <<now, pos, cache, digestLog, last, streak, digestDone, tombstoned,
                   fired, running>>

\* the loop from a start on a boundary
SpecLoop ==
    InitProbe({[phase |-> "sleep", clock |-> 0, tick |-> NextScheduleTick(0, IntervalMs),
                started |-> 0 - 1, read |-> 0 - 1, fired |-> FALSE]})
    /\ [][SleepUntil \/ TickOnce]_vars

----------------------------------------------------------------------------
(* Bot.start: run_main_loop, then stop and _cleanup.  pc is the position of the
   main thread; connect, web, ends and disc are what the collaborators do. *)

\* start sets running and runs run_main_loop: mm.connect (a refusal returns
\* before the try), the listener and the web server, then the task of
\* check_notifications_loop, whose end passes the finally that clears running
RunMainLoop ==
    /\ probe.pc \in {"start", "connect", "web", "loop"}
    /\ probe' =
         IF probe.pc = "start" THEN [probe EXCEPT !.pc = "connect", !.running = TRUE]
         ELSE IF probe.pc = "connect"
         THEN (IF probe.connect = "ok" THEN [probe EXCEPT !.pc = "web"]
               ELSE [probe EXCEPT !.pc = "stop", !.raised = (probe.connect = "raise")])
         ELSE IF probe.pc = "web"
         THEN (IF probe.web = "ok" THEN [probe EXCEPT !.pc = "loop", !.runner = TRUE]
               ELSE [probe EXCEPT !.pc = "stop", !.raised = TRUE])
         ELSE [probe EXCEPT !.pc = "stop", !.running = FALSE, !.loopRan = TRUE,
                            !.raised = (probe.ends = "base")]
    /\ UNCHANGED <<now, pos, cache, digestLog, last, streak, digestDone, tombstoned,
                   fired, running>>

\* the finally of start: stop returns at once when running is False, else it
\* clears running, runs _cleanup (listener flag, mm.disconnect, web_runner.cleanup)
\* and closes the database
StopBot ==
    /\ probe.pc \in {"stop", "cleanup", "runner", "close"}
    /\ probe' =
         IF probe.pc = "stop"
         THEN (IF ~probe.running THEN [probe EXCEPT !.pc = "returned"]
               ELSE [probe EXCEPT !.pc = "cleanup", !.running = FALSE])
         ELSE IF probe.pc = "cleanup"
         THEN (IF probe.disc = "ok"
               THEN [probe EXCEPT !.pc = "runner", !.wsStopped = @ + 1, !.disconnected = @ + 1]
               ELSE [probe EXCEPT !.pc = "returned", !.wsStopped = @ + 1, !.raised = TRUE])
         ELSE IF probe.pc = "runner"
         THEN [probe EXCEPT !.pc = "close",
                            !.webCleaned = IF probe.runner THEN @ + 1 ELSE @]
         ELSE [probe EXCEPT !.pc = "returned", !.dbClosed = @ + 1]
    /\ UNCHANGED <<now, pos, cache, digestLog, last, streak, digestDone, tombstoned,
                   fired, running>>

\* one call of start; the task ends by an exception the loop lets through its
\* await (error), by cancellation (interrupt) or by a BaseException
SpecStart ==
    InitProbe({[pc |-> "start", running |-> FALSE, runner |-> FALSE, loopRan |-> FALSE,
                raised |-> FALSE, wsStopped |-> 0, disconnected |-> 0, webCleaned |-> 0,
                dbClosed |-> 0, connect |-> c, web |-> w, ends |-> e, disc |-> d] :
                  c \in {"ok", "refused", "raise"}, w \in {"ok", "raise"},
                  e \in {"error", "interrupt", "base"}, d \in {"ok", "raise"}})
    /\ [][RunMainLoop \/ StopBot]_vars

----------------------------------------------------------------------------
(* The meeting wizard of one registered user: the row of table user_states, the
   dialog handlers the websocket thread has scheduled on the event loop, and the
   button actions.  data is the set of keys of the stored state_data. *)

NoUserState == [state |-> "", data |-> {}]

\* set_user_state: the row is created when missing; data is written only when
\* the dict is not empty
SetUserState(row, state, data) ==
    [state |-> state, data |-> IF data = {} THEN row.data ELSE data]

\* create_meeting for a registered user: without date or time, or when
\* create_event fails, it only sends a message; else the event is created and
\* show_main_menu clears the state.  made records the stored state at the call
\* and whether title, date, time and duration were collected.
CreateMeeting(p, data, ok) ==
    IF {"date", "time"} \subseteq data /\ ok
    THEN [p EXCEPT !.row = NoUserState,
                   !.made = [state |-> p.row.state,
                             complete |-> {"title", "date", "time", "duration"} \subseteq data]]
    ELSE p

\* handle_dialog_step on the snapshot snap of the row: the branch of snap.state
\* adds its key and asks the next question; valid is the outcome of
\* validate_date, validate_time or validate_minutes
DialogStep(p, snap, valid, ok) ==
    IF snap.state = "creating_meeting_title"
    THEN [p EXCEPT !.row = SetUserState(p.row, "creating_meeting_date", snap.data \cup {"title"})]
    ELSE IF snap.state = "creating_meeting_date"
    THEN (IF valid THEN [p EXCEPT !.row = SetUserState(p.row, "creating_meeting_time",
                                                      snap.data \cup {"date"})]
          ELSE p)
    ELSE IF snap.state = "creating_meeting_time"
    THEN (IF valid THEN [p EXCEPT !.row = SetUserState(p.row, "creating_meeting_duration",
                                                      snap.data \cup {"time"})]
          ELSE p)
    ELSE IF snap.state = "creating_meeting_duration"
    THEN (IF valid THEN [p EXCEPT !.row = SetUserState(p.row, "creating_meeting_attendees",
                                                      snap.data \cup {"duration"})]
          ELSE p)
    ELSE IF snap.state = "creating_meeting_attendees"
    THEN [p EXCEPT !.row = SetUserState(p.row, "creating_meeting_description",
                                        snap.data \cup {"attendees"})]
    ELSE IF snap.state = "creating_meeting_description"
    THEN [p EXCEPT !.row = SetUserState(p.row, "creating_meeting_location",
                                        snap.data \cup {"description"})]
    ELSE IF snap.state = "creating_meeting_location"
    THEN CreateMeeting(p, snap.data \cup {"location"}, ok)
    ELSE p

\* handle_posted in the websocket thread, for a message that does not mention
\* the bot: get_user_state is read there, and handle_dialog_step is scheduled on
\* the event loop with that row
HandlePosted ==
    /\ probe.row.state # ""
    /\ Len(probe.queue) < 2
    /\ probe' = [probe EXCEPT !.queue = Append(@, [snap |-> probe.row, fresh |-> TRUE])]
    /\ UNCHANGED <<now, pos, cache, digestLog, last, streak, digestDone, tombstoned,
                   fired, running>>

\* the event loop runs the next scheduled handle_dialog_step on its message (valid
\* or not); the snapshots read before this handler ran are no longer fresh
RunDialogStep ==
    /\ probe.queue # <<>>
    /\ \E valid \in BOOLEAN, ok \in BOOLEAN :
          probe' = [DialogStep(probe, Head(probe.queue).snap, valid, ok)
                       EXCEPT !.queue = [i \in 1..(Len(probe.queue) - 1) |->
                                            [probe.queue[i + 1] EXCEPT !.fresh = FALSE]],
                              !.stale = @ \/ (/\ ~Head(probe.queue).fresh
                                              /\ Head(probe.queue).snap # probe.row)]
    /\ UNCHANGED <<now, pos, cache, digestLog, last, streak, digestDone, tombstoned,
                   fired, running>>

\* handle_action: the button handlers read the row themselves.  quick_date and
\* quick_time test the state; no_invite, skip_description and skip_location need
\* only a row (without one they end in their except clause)
HandleAction ==
    /\ \E action \in {"create_meeting", "quick_date", "quick_time", "no_invite",
                      "skip_description", "skip_location", "cancel_wizard"},
          valid \in BOOLEAN, ok \in BOOLEAN :
          probe' =
            IF action = "create_meeting"
            THEN [probe EXCEPT !.row = SetUserState(probe.row, "creating_meeting_title", {})]
            ELSE IF action = "cancel_wizard" THEN [probe EXCEPT !.row = NoUserState]
            ELSE IF action = "quick_date"
            THEN (IF probe.row.state = "creating_meeting_date"
                  THEN DialogStep(probe, probe.row, valid, ok) ELSE probe)
            ELSE IF action = "quick_time"
            THEN (IF probe.row.state = "creating_meeting_time"
                  THEN DialogStep(probe, probe.row, valid, ok) ELSE probe)
            ELSE IF probe.row.state = "" THEN probe
            ELSE IF action = "no_invite"
            THEN [probe EXCEPT !.row = SetUserState(probe.row, "creating_meeting_description",
                                                    probe.row.data \cup {"attendees"})]
            ELSE IF action = "skip_description"
            THEN [probe EXCEPT !.row = SetUserState(probe.row, "creating_meeting_location",
                                                    probe.row.data \cup {"description"})]
            ELSE CreateMeeting(probe, probe.row.data \cup {"location"}, ok)
    /\ UNCHANGED <<now, pos, cache, digestLog, last, streak, digestDone, tombstoned,
                   fired, running>>

\* the wizard from a user without a row; a button is pressed only while no
\* handler is pending
SpecWizard ==
    InitProbe({[row |-> NoUserState, queue |-> <<>>, stale |-> FALSE,
                made |-> [state |-> "", complete |-> FALSE]]})
    /\ [][HandlePosted \/ RunDialogStep \/ (probe.queue = <<>> /\ HandleAction)]_vars

----------------------------------------------------------------------------
(* Table meeting_cache as the list of its rows, written by the ticks of two users *)

\* a lookup that finds no row
TableFindNothing(table, user, uid, i) == 0

\* query(MeetingCache).filter_by(user_id, uid).first(), from row i on: the
\* position of the first such row, 0 when there is none
RECURSIVE TableFind(_, _, _, _)
TableFind(table, user, uid, i) ==
    IF i > Len(table) THEN 0
    ELSE IF table[i].user = user /\ table[i].uid = uid THEN i
    ELSE TableFind(table, user, uid, i + 1)

\* a disappearance handled by deleting the row
TableDelete(table, user, uid) ==
    LET Others(r) == ~(r.user = user /\ r.uid = uid) IN SelectSeq(table, Others)

\* _mark_event_cancelled
TableMarkCancelled(table, user, uid) ==
    IF TableFind(table, user, uid, 1) = 0 THEN table
    ELSE [table EXCEPT ![TableFind(table, user, uid, 1)].row.status = "CANCELLED"]

\* _update_events_cache on the values of current_events_map, from key i on: the
\* row of (user, uid) is looked up, added when there is none, and assigned
RECURSIVE TableUpsert(_, _, _, _)
TableUpsert(table, user, cur, i) ==
    IF i > Len(cur.keys) THEN table
    ELSE TableUpsert(
            IF TableFind(table, user, cur.keys[i], 1) = 0
            THEN Append(table, [user |-> user, uid |-> cur.keys[i],
                                row |-> Row(cur.val[cur.keys[i]])])
            ELSE [table EXCEPT ![TableFind(table, user, cur.keys[i], 1)].row =
                                   Row(cur.val[cur.keys[i]])],
            user, cur, i + 1)

\* one user's iteration of a tick: the implicit branch marks a row of a uid the
\* fetch does not hold, then the events of the fetch are upserted
TableTick ==
    \E user \in probe.users, events \in RowsReportLists, gone \in UIDs :
        /\ probe' = [probe EXCEPT
                        !.repeated = \E i, j \in 1..Len(events) :
                                         i < j /\ events[i].uid = events[j].uid,
                        !.table = TableUpsert(
                                     IF gone \in DOMAIN CurrentEventsMap(events, 1, EmptyDict).val
                                     THEN probe.table
                                     ELSE TableMarkCancelled(probe.table, user, gone),
                                     user, CurrentEventsMap(events, 1, EmptyDict), 1)]
        /\ UNCHANGED <<now, pos, cache, digestLog, last, streak, digestDone, tombstoned,
                       fired, running>>

\* logout_user: delete_user removes the row of table users, clear_user_state the
\* dialogue state
TableLogout ==
    \E user \in probe.users :
        /\ probe' = [probe EXCEPT !.users = @ \ {user}]
        /\ UNCHANGED <<now, pos, cache, digestLog, last, streak, digestDone, tombstoned,
                       fired, running>>

SpecTable ==
    InitProbe({[users |-> Users, table |-> <<>>, repeated |-> FALSE]})
    /\ [][TableTick \/ TableLogout]_vars

----------------------------------------------------------------------------
(* Properties *)

\* a step that ran one user's iteration to its end or to its exception
Processed == pos # 0 /\ last'.ran

InWindow(t, today) == t # NoTime /\ Today(t) \in {today, today + 1}

RowOf(event) ==
    [status |-> event.status, start |-> event.start, end |-> event.end,
     details |-> event.details, hash |-> <<"md5", event>>]

UidsOf(events) == {events[i].uid : i \in 1..Len(events)}

CurrentOf(events, uid) == CurrentEventsMap(events, 1, EmptyDict).val[uid]

NoticesOf(sent, uid) == {i \in 1..Len(sent) : sent[i].uid = uid}

KindNoticesOf(sent, uid, kind) == {i \in NoticesOf(sent, uid) : sent[i].kind = kind}

\* the cached map's entry of a uid before the step
CachedEntry(user, uid, today) ==
    IF uid \in CachedEventsKeys(cache[user], today) THEN cache[user][uid] ELSE NoRow

\* C1: a fetch with no successful underlying call (no REPORT answered 200/207, the
\* alternate client's date_search did not return, or no calendar was discovered)
\* produces no implicit cancellation in that tick: no implicit cancellation notice
\* is sent and no cache row of the user turns CANCELLED.
C1_FailedFetchCancelsNothing ==
    [][(Processed /\ ~last'.anyCall) =>
          /\ \A i \in 1..Len(last'.sent) : last'.sent[i].kind # "CANCELLED"
          /\ \A uid \in UIDs :
                cache[last'.user][uid].status # "CANCELLED"
                    => cache'[last'.user][uid].status # "CANCELLED"]_vars

\* C1 happens: an iteration whose fetch had no successful call, over a cache whose
\* rows are all non-cancelled and inside the window
C1_Witness ==
    /\ last.ran /\ ~last.anyCall
    /\ \A uid \in UIDs \ {SyntheticUid} :
          /\ cache[last.user][uid].status = "CONFIRMED"
          /\ uid \in CachedEventsKeys(cache[last.user], last.today)

\* C2: over consecutive ticks whose fetches all hold a uid with the same
\* non-cancelled status, start and end, the new-meeting notification for that uid
\* is sent in at most one tick, whatever else the fetches hold.
C2_NewMeetingAtMostOnce ==
    \A u \in Users, uid \in UIDs : streak[u][uid].news <= 1

\* C3: within one tick and user at most one diff notice is sent per uid, a notice
\* of the per-event loop is for a uid the loop handled, a notice of the implicit
\* branch is for a missing uid, and no uid is both handled and missing.
C3_OneClassificationPerUid ==
    last.ran =>
        /\ last.relevant \cap last.missing = {}
        /\ \A i, j \in 1..Len(last.sent) : i # j => last.sent[i].uid # last.sent[j].uid
        /\ \A i \in 1..Len(last.sent) :
              IF last.sent[i].implicit
              THEN last.sent[i].uid \in last.missing
              ELSE last.sent[i].uid \in last.relevant

\* C3 happens: one tick handles a uid in the loop and another in the implicit
\* branch, with a notice for each
C3_Witness ==
    /\ last.ran
    /\ \E i, j \in 1..Len(last.sent) : last.sent[i].implicit /\ ~last.sent[j].implicit
    /\ last.relevant # {} /\ last.missing # {}

\* minute-rounded times differ; a time that does not parse has no minute
TimesDiffer(cached, event) ==
    /\ event.start # NoTime /\ event.end # NoTime
    /\ \/ cached.start \div MINUTE # event.start \div MINUTE
       \/ cached.end \div MINUTE # event.end \div MINUTE

\* the decision table with "everything else gives nothing"
ClaimedKind(cached, event) ==
    CASE cached = NoRow /\ event.status # "CANCELLED" -> "NEW"
      [] cached = NoRow /\ event.status = "CANCELLED" -> "NONE"
      [] cached # NoRow /\ cached.status # "CANCELLED" /\ event.status = "CANCELLED"
            -> "CANCELLED"
      [] cached # NoRow /\ cached.status # "CANCELLED" /\ event.status # "CANCELLED"
            /\ TimesDiffer(cached, event) -> "RESCHEDULED"
      [] OTHER -> "NONE"

\* the decision table with the row "cached CANCELLED, current not CANCELLED"
TableKind(cached, event) ==
    IF cached # NoRow /\ cached.status = "CANCELLED" /\ event.status # "CANCELLED"
    THEN "NEW"
    ELSE ClaimedKind(cached, event)

\* the notices the per-event loop sent for a uid
LoopKinds(sent, uid) == {sent[i].kind : i \in {j \in NoticesOf(sent, uid) : ~sent[j].implicit}}

Expected(kind) == IF kind = "NONE" THEN {} ELSE {kind}

\* C4 as stated: for every event the per-event loop handled, the notification sent
\* is the one of the table: absent and not cancelled gives NEW, absent and
\* cancelled nothing, cached non-cancelled and current cancelled CANCELLED, both
\* non-cancelled with differing minute-rounded times RESCHEDULED, everything else
\* nothing.
C4_TableAsStated ==
    [][Processed =>
          \A uid \in last'.relevant :
              LoopKinds(last'.sent, uid) =
                  Expected(ClaimedKind(CachedEntry(last'.user, uid, last'.today),
                                       CurrentOf(last'.events, uid)))]_vars

\* C4: for every event the per-event loop handled, the notification sent is the
\* one of the table above, except that a cached CANCELLED entry with a current
\* non-cancelled event gives a new-meeting notification.
C4_DecisionTable ==
    [][Processed =>
          \A uid \in last'.relevant :
              LoopKinds(last'.sent, uid) =
                  Expected(TableKind(CachedEntry(last'.user, uid, last'.today),
                                     CurrentOf(last'.events, uid)))]_vars

\* C4 happens: the loop sent a new-meeting notice for a uid whose cached entry was
\* CANCELLED
C4_Witness ==
    /\ last.ran
    /\ \E i \in 1..Len(last.sent) :
          /\ ~last.sent[i].implicit
          /\ last.sent[i].kind = "NEW"
          /\ last.sent[i].cached = "CANCELLED"

\* C5: from an empty cache, a tick whose fetch is one CONFIRMED event a (in the
\* window) sends exactly one new-meeting notice; a tick with the same event, cached
\* unchanged, sends nothing for a; a tick whose trustworthy fetch does not hold a
\* while a's row is non-cancelled and in the window sends exactly one cancellation
\* for a and leaves the row CANCELLED; a tick in which a is absent and its row is
\* CANCELLED sends no cancellation for a.
C5_Lifecycle ==
    [][Processed =>
          LET u == last'.user
              today == last'.today
              events == last'.events
              sent == last'.sent
              onlyA == /\ Len(events) = 1
                       /\ events[1].uid = "a"
                       /\ events[1].status = "CONFIRMED"
                       /\ InWindow(events[1].start, today)
          IN /\ (onlyA /\ \A uid \in UIDs : cache[u][uid] = NoRow)
                    => (Len(sent) = 1 /\ sent[1].kind = "NEW" /\ sent[1].uid = "a")
             /\ (onlyA /\ cache[u]["a"] = RowOf(events[1]))
                    => NoticesOf(sent, "a") = {}
             /\ (/\ last'.ok
                 /\ "a" \notin UidsOf(events)
                 /\ cache[u]["a"].status = "CONFIRMED"
                 /\ InWindow(cache[u]["a"].start, today))
                    => /\ Cardinality(KindNoticesOf(sent, "a", "CANCELLED")) = 1
                       /\ cache'[u]["a"].status = "CANCELLED"
             /\ ("a" \notin UidsOf(events) /\ cache[u]["a"].status = "CANCELLED")
                    => KindNoticesOf(sent, "a", "CANCELLED") = {}]_vars

\* C6: when a's row was flipped to CANCELLED by the implicit branch and a fetch
\* holds a with a non-cancelled status and a start in the window, exactly one
\* new-meeting notice is sent for a at that tick and the row becomes
\* non-CANCELLED; a tick that finds the event cached unchanged sends nothing for a.
C6_Uncancel ==
    [][Processed =>
          LET u == last'.user
              today == last'.today
              events == last'.events
              sent == last'.sent
              held == "a" \in UidsOf(events)
              ev == CurrentOf(events, "a")
          IN /\ (/\ <<u, "a">> \in tombstoned
                 /\ held
                 /\ ev.status # "CANCELLED"
                 /\ InWindow(ev.start, today))
                    => /\ Cardinality(KindNoticesOf(sent, "a", "NEW")) = 1
                       /\ cache'[u]["a"].status # "CANCELLED"
             /\ (held /\ ev.status # "CANCELLED" /\ cache[u]["a"] = RowOf(ev))
                    => NoticesOf(sent, "a") = {}]_vars

\* C7 as stated: for every seconds field of the cached start and end, the event
\* shifted by 30 seconds classifies UNCHANGED and the event shifted by 61 seconds
\* classifies RESCHEDULED.
C7_AsStated ==
    probe.done =>
        /\ (probe.shift = MINUTE \div 2 => probe.kind = "NONE")
        /\ (probe.shift = MINUTE + 1 => probe.kind = "RESCHEDULED")

\* C7: the event shifted by 30 seconds classifies UNCHANGED exactly when the
\* seconds fields of the cached start and of the cached end are both below 30 (the
\* shift crosses no minute boundary) and RESCHEDULED otherwise; the event shifted
\* by 61 seconds classifies RESCHEDULED.
C7_MinuteTruncation ==
    probe.done =>
        /\ (probe.shift = MINUTE \div 2 =>
              probe.kind = IF probe.startSec < MINUTE \div 2 /\ probe.endSec < MINUTE \div 2
                           THEN "NONE" ELSE "RESCHEDULED")
        /\ (probe.shift = MINUTE + 1 => probe.kind = "RESCHEDULED")

\* C7 happens: a shift of 30 seconds from a cached start past the half minute was
\* classified RESCHEDULED
C7_Witness ==
    /\ probe.done
    /\ probe.shift = MINUTE \div 2
    /\ probe.startSec >= MINUTE \div 2
    /\ probe.kind = "RESCHEDULED"

\* C8: when the delivery of a diff notice fails, the cache is brought to the
\* classified state in the same tick: the row of an implicitly cancelled uid is
\* CANCELLED, the row of any other noticed uid is the current event.
C8_CacheUpdatedOnFailedDelivery ==
    [][Processed =>
          \A i \in 1..Len(last'.sent) :
              ~last'.sent[i].delivered =>
                  IF last'.sent[i].implicit
                  THEN cache'[last'.user][last'.sent[i].uid].status = "CANCELLED"
                  ELSE cache'[last'.user][last'.sent[i].uid] =
                           RowOf(CurrentOf(last'.events, last'.sent[i].uid))]_vars

\* C9 as stated: the digest of a user and date is delivered in at most one tick of
\* that date.
C9_AsStated ==
    [][(Processed /\ last'.digestDelivered)
          => <<last'.user, last'.today>> \notin digestDone]_vars

\* C9: once the digest-log row of a user and date exists, no later tick of that
\* date sends the digest of that user; a second send of a date happens only after
\* a send whose log write failed.
C9_NoDigestOnceLogged ==
    [][(Processed /\ <<last'.user, last'.today>> \in digestLog)
          => ~last'.digestTried]_vars

\* C9 happens: a tick after the digest hour, on a date whose digest was delivered
\* and logged, ran to its end and sent no digest
C9_Witness ==
    /\ last.ran /\ last.raised = "none"
    /\ now >= last.today * DAY + DAILY_DIGEST_HOUR * HOUR
    /\ <<last.user, last.today>> \in digestLog
    /\ <<last.user, last.today>> \in digestDone
    /\ ~last.digestTried

\* C10: a digest-log row of a user and date exists only if a digest message of
\* that user and date was delivered.
C10_LogOnlyAfterDelivery == digestLog \subseteq digestDone

\* the messages of a call of _check_reminders for a uid
RemindersOf(reminders, uid) == {i \in 1..Len(reminders) : reminders[i].uid = uid}

\* the alarms of an event inside the window
AlarmsInWindow(event, clock) ==
    {k \in 1..Len(event.alarms) :
        event.alarms[k] # NoTime /\ InCheckWindow(event.alarms[k], clock)}

\* C11: in one call of _check_reminders each event causes at most one message
\* (alarm reminder, lead-time reminder or start-of-meeting notice).
C11_OneReminderPerEvent ==
    last.remCalled =>
        \A uid \in UIDs : Cardinality(RemindersOf(last.reminders, uid)) <= 1

\* C11 happens: an event with two alarms and its start inside the window got one
\* message
C11_Witness ==
    /\ last.remCalled
    /\ \E i \in 1..Len(last.events) :
          /\ Cardinality(AlarmsInWindow(last.events[i], last.clock)) >= 2
          /\ InCheckWindow(last.events[i].start, last.clock)
          /\ Cardinality(RemindersOf(last.reminders, last.events[i].uid)) = 1

\* C12: an alarm trigger time of an event that stays present in the fetches
\* produces a reminder in at most one tick: a tick fires no alarm reminder that an
\* earlier tick fired.
C12_AlarmFiresOnce ==
    [][Processed =>
          \A i \in 1..Len(last'.reminders) :
              last'.reminders[i].kind = "ALARM" =>
                  <<last'.user, last'.reminders[i].uid, last'.reminders[i].at>>
                      \notin fired]_vars

\* what an event with an empty alarm list gets: a reminder when start minus the
\* positive lead time is inside the window, else a start notice when start is
\* inside it, else nothing
NoAlarmKinds(event, clock) ==
    IF REMINDER_MINUTES > 0 /\ InCheckWindow(event.start - REMINDER_MINUTES * MINUTE, clock)
    THEN <<"LEAD">>
    ELSE IF InCheckWindow(event.start, clock) THEN <<"START">>
    ELSE <<>>

\* the kinds of the messages of a uid, in order
RECURSIVE KindsOf(_, _, _)
KindsOf(reminders, uid, i) ==
    IF i > Len(reminders) THEN <<>>
    ELSE (IF reminders[i].uid = uid THEN <<reminders[i].kind>> ELSE <<>>)
         \o KindsOf(reminders, uid, i + 1)

FallbackTable ==
    \A i \in 1..Len(last.events) :
        IF last.events[i].alarms = <<>>
        THEN KindsOf(last.reminders, last.events[i].uid, 1)
                 = NoAlarmKinds(last.events[i], last.clock)
        ELSE \A k \in RemindersOf(last.reminders, last.events[i].uid) :
                 last.reminders[k].kind # "LEAD"

C14_UsersIndependent ==
    [][(pos # 0 /\ pos' # pos) =>
          /\ now' = now
          /\ pos' = IF pos < Len(TwoUsers) THEN pos + 1 ELSE 0
          /\ \A v \in Users \ {TwoUsers[pos]} :
                /\ cache'[v] = cache[v]
                /\ streak'[v] = streak[v]
                /\ {d \in digestLog' : d[1] = v} = {d \in digestLog : d[1] = v}
                /\ {d \in digestDone' : d[1] = v} = {d \in digestDone : d[1] = v}
                /\ {f \in fired' : f[1] = v} = {f \in fired : f[1] = v}]_vars

\* C14 happens: the second user was processed, notified and cached in a tick in
\* which the first user's iteration failed
C14_Witness ==
    /\ last.ran /\ last.user = TwoUsers[2]
    /\ TwoUsers[1] \in last.failed
    /\ TwoUsers[2] \notin last.failed
    /\ last.sent # <<>>
    /\ cache[TwoUsers[2]]["a"] # NoRow

\* C15: a tick starts only when no user of the previous tick is left to process.
C15_NoOverlap == [][now' # now => pos = 0]_vars

\* C15 happens: a tick has started after an earlier tick wrote the cache
C15_Witness ==
    /\ pos = 1 /\ last = NoLast
    /\ \E u \in Users : cache[u]["a"] # NoRow

\* C16: within one user's iteration every diff notification (implicit
\* cancellations included) is attempted before any reminder or start notice.
C16_DiffBeforeReminders ==
    last.ran =>
        \A i, j \in 1..Len(last.log) :
            (last.log[i] = "reminder" /\ last.log[j] = "diff") => j < i

\* C16 happens: an iteration attempted a diff notification and a reminder
C16_Witness ==
    /\ last.ran
    /\ \E i, j \in 1..Len(last.log) : last.log[i] = "diff" /\ last.log[j] = "reminder"

\* C17: within one user's iteration every write to the snapshot cache (the flip to
\* CANCELLED, the upsert) comes after all notification attempts (diff
\* notifications, reminders, digest).
C17_CacheWrittenLast ==
    last.ran =>
        \A i, j \in 1..Len(last.log) :
            (last.log[i] \in {"flip", "upsert"}
             /\ last.log[j] \in {"diff", "reminder", "digest"}) => j < i

\* C18: after the shutdown signal no tick starts, and a check_and_notify in flight
\* does not go on to its remaining users.
C18_PromptShutdown ==
    [][~running => (now' = now /\ (pos # 0 => pos' \in {pos, 0}))]_vars

\* the stages of the ladder in their fixed order
StageOrder == <<"primary", "wide", "alt">>

\* the attempted stages that ended with a non-empty aggregate
StagesWithEvents(stages) == {i \in 1..Len(stages) : stages[i].after.events # <<>>}

\* C19: get_events attempts its stages in the order primary REPORT, widened
\* REPORT, date_search; a stage is attempted only when the aggregate of the earlier
\* stages is empty, and the returned list is the aggregate of the first stage that
\* found events: no later stage adds to it, replaces it or clears it.
C19_FallbackLadder ==
    probe.done =>
        /\ Len(probe.stages) <= Len(StageOrder)
        /\ \A i \in 1..Len(probe.stages) :
              /\ probe.stages[i].stage = StageOrder[i]
              /\ probe.stages[i].before.events = <<>>
              /\ \A j \in 1..(i - 1) : probe.stages[j].after.events = <<>>
        /\ IF StagesWithEvents(probe.stages) = {}
           THEN probe.result.events = <<>>
           ELSE \E i \in StagesWithEvents(probe.stages) :
                   /\ \A j \in StagesWithEvents(probe.stages) : i <= j
                   /\ probe.result.events = probe.stages[i].after.events
                   /\ i = Len(probe.stages)

\* C19 happens: the primary stage found nothing, the widened stage found events on
\* both calendars, and date_search, which had events to give, was not attempted
C19_Witness ==
    /\ probe.done
    /\ Len(probe.stages) = 2
    /\ probe.stages[1].after.ok
    /\ Len(probe.result.events) = 2
    /\ probe.alt.kind = "ok" /\ probe.alt.evs # <<>>

\* structured parsing of the payload failed entirely: the document was rejected,
\* or it has calendar-data blocks and from_ical rejected every one
FailsStructuredParsing(payload) ==
    \/ ~payload.xml
    \/ /\ payload.blocks # <<>>
       /\ \A i \in 1..Len(payload.blocks) : ~payload.blocks[i].strict

\* the payload holds a VEVENT block with UID, SUMMARY, DTSTART and DTEND
HasVeventBlock(payload) ==
    \E i \in 1..Len(payload.blocks) : payload.blocks[i].vevent # "none"

\* C20: a payload that fails structured parsing entirely but holds a VEVENT block
\* with UID, SUMMARY, DTSTART and DTEND gives a record with uid, title, start_time
\* and end_time from the textual pass.
C20_TextualFallbackRecovers ==
    (probe.done /\ FailsStructuredParsing(probe.payload) /\ HasVeventBlock(probe.payload))
        => \E i \in 1..Len(probe.events) : probe.events[i].via = "textual"

\* C21: an event without a usable uid, the regex pass's placeholder included, takes
\* no part in the diff or the cache: no notification names it and it gets no row.
C21_PlaceholderKeptOut ==
    /\ \A u \in Users : cache[u][SyntheticUid] = NoRow
    /\ \A i \in 1..Len(last.sent) : last.sent[i].uid \notin {"", SyntheticUid}

\* C22: the times a tick writes to the cache are wall-clock times of the
\* configured zone, whatever stage produced the event, so the same event fetched
\* again never compares as RESCHEDULED against its own row.
C22_StoredInConfiguredZone ==
    /\ probe.step >= 1 => probe.row.start = ZoneEvent(probe).start
    /\ probe.step = 2 => probe.kind # "RESCHEDULED"

\* an iteration that ran to its end without an exception
Completed == last.ran /\ last.raised = "none"

\* the positions of a fetch whose uid no later event of the fetch carries
LastOfUid(events) ==
    {i \in 1..Len(events) :
        events[i].uid # "" /\ \A j \in (i + 1)..Len(events) : events[j].uid # events[i].uid}

\* C23 as stated: after a completed iteration every uid-bearing event of the fetch
\* has a cache row equal to its fields.
C23_AsStated ==
    Completed =>
        \A i \in 1..Len(last.events) :
            last.events[i].uid # "" =>
                cache[last.user][last.events[i].uid] = RowOf(last.events[i])

\* C23: after a completed iteration every uid of the fetch has a cache row equal
\* to the fields of the last event of the fetch that carries the uid, whatever the
\* classification was.
C23_RowsFollowFetch ==
    Completed =>
        \A i \in LastOfUid(last.events) :
            cache[last.user][last.events[i].uid] = RowOf(last.events[i])

\* C23 happens: an edit of the details only was classified as unchanged and the
\* row took the new details
C23_Witness ==
    /\ Completed
    /\ last.sent = <<>>
    /\ \E i \in LastOfUid(last.events) :
          /\ last.events[i].details = "d1"
          /\ last.events[i].uid \in last.relevant
          /\ cache[last.user][last.events[i].uid].details = "d1"

\* C24: the cache holds at most one row per (user_id, uid).
C24_OneRowPerKey ==
    \A i, j \in 1..Len(probe.table) :
        (probe.table[i].user = probe.table[j].user
         /\ probe.table[i].uid = probe.table[j].uid) => i = j

\* C24 happens: fetches that held uid a twice left one row of a, with the columns
\* of the second event, for each of two users
C24_Witness ==
    /\ probe.repeated
    /\ \A u \in Users :
          Cardinality({i \in 1..Len(probe.table) :
                          /\ probe.table[i].user = u /\ probe.table[i].uid = "a"
                          /\ probe.table[i].row.start = T0 + 61}) = 1

DriftedHash(rows) ==
    [uid \in UIDs |->
        IF rows[uid] = NoRow THEN NoRow ELSE [rows[uid] EXCEPT !.hash = <<"md5", NoEvent>>]]

\* what an iteration's diff sends and the rows it leaves, without the hash column
Observable(diff) ==
    [sent |-> diff.sent, raised |-> diff.raised,
     rows |-> [uid \in UIDs |-> [diff.rows[uid] EXCEPT !.hash = <<>>]]]

ProbeRequests(requests) ==
    {i \in 1..Len(requests) : \E k \in 1..Len(Candidates) : requests[i] = Candidates[k]}

\* C27: get_calendars never raises; when the listing and every probe fail it
\* returns the empty list, and get_events answers an empty calendar list with an
\* empty result.
C27_NeverRaises ==
    probe.done =>
        /\ ~probe.out.raised
        /\ (/\ probe.principal.kind # "ok"
            /\ \A k \in 1..Len(Candidates) : probe.probes[k].kind # "ok")
               => probe.out.cals = <<>>
        /\ probe.out.cals = <<>> => (probe.fetch.events = <<>> /\ ~probe.fetch.ok)
        /\ probe.out.cals # <<>> => probe.fetch.events # <<>>

\* C27 happens: the listing raised, every probe failed, one of them by raising,
\* and both calls returned empty lists
C27_Witness ==
    /\ probe.done
    /\ probe.principal.kind = "raise"
    /\ \A k \in 1..Len(Candidates) : probe.probes[k].kind # "ok"
    /\ \E k \in 1..Len(Candidates) : probe.probes[k].kind = "raise"
    /\ Len(probe.out.requests) = 1 + Len(Candidates)
    /\ probe.out.cals = <<>> /\ probe.fetch.events = <<>>

\* C28: the candidates are probed only when the two listings gave no calendar, in
\* the order of the list, up to the first that answers 200/207, and that candidate
\* is returned as the only calendar.
C28_ProbingLadder ==
    probe.done =>
        LET asked == ProbeRequests(probe.out.requests)
            n == Cardinality(asked)
            m == Len(probe.out.requests) - n
        IN /\ asked # {} =>
                 /\ ~(probe.principal.kind = "ok" /\ probe.principal.cals # <<>>)
                 /\ ~(/\ probe.principal.kind = "ok" /\ probe.principal.root
                      /\ probe.root.kind = "ok" /\ probe.root.cals # <<>>)
           /\ \A k \in 1..n :
                 /\ probe.out.requests[m + k] = Candidates[k]
                 /\ k < n => probe.probes[k].kind # "ok"
           /\ (n > 0 /\ n < Len(Candidates)) => probe.probes[n].kind = "ok"
           /\ n > 0 => probe.out.cals = IF probe.probes[n].kind = "ok"
                                        THEN <<Candidates[n]>> ELSE <<>>

\* C28 happens: the first candidate raised, the second answered and was returned,
\* the third, which would have answered too, was not asked
C28_Witness ==
    /\ probe.done
    /\ probe.probes[1].kind = "raise"
    /\ probe.probes[2].kind = "ok" /\ probe.probes[3].kind = "ok"
    /\ Cardinality(ProbeRequests(probe.out.requests)) = 2
    /\ probe.out.cals = <<Candidates[2]>>

\* C29: a calendar whose REPORT failed in a call of get_events (the failed answer
\* of the model stands for a timeout or connection error as well as for a status)
\* is not requested again in the same call: the widened stage, which asks every
\* calendar once more, is not attempted.
C29_NoRetryWithinTick ==
    probe.done =>
        \A i \in 1..Len(probe.cals) :
            ~probe.prim[probe.cals[i]].ok =>
                \A k \in 1..Len(probe.stages) : probe.stages[k].stage # "wide"

\* C30: the tick time is a multiple of the interval, not earlier than now minus
\* the tolerance and earlier than now plus one interval, and the loop wakes
\* within the tolerance of that boundary.
C30_TickOnBoundary ==
    probe.done =>
        /\ probe.tick % probe.interval = 0
        /\ probe.tick >= probe.clock - TOLERANCE_MS
        /\ probe.tick < probe.clock + probe.interval
        /\ probe.woke >= probe.tick
        /\ probe.woke - probe.tick <= TOLERANCE_MS

\* C30 happens: the clock is the whole tolerance past a boundary and the boundary
\* is the tick; one millisecond later the tick is the next boundary
C30_Witness ==
    /\ probe.done
    /\ probe.clock - probe.tick = TOLERANCE_MS
    /\ NextScheduleTick(probe.clock + 1, probe.interval) = probe.tick + probe.interval

\* C31: normalization is idempotent: applied to an event list that is already
\* its output, it yields the same list.
C31_NormalizeIdempotent ==
    probe.step = 2 => probe.list = probe.once

\* the REPORTs a call of get_events over c1 and c2 sent: the primary stage, and
\* the widened stage when the primary one gave no event
RequestsMade ==
    {<<"primary", c>> : c \in FetchCalendars}
    \cup (IF ReportStage(<<"c1", "c2">>, probe.prim, 1, FetchStart).events = <<>>
          THEN {<<"wide", c>> : c \in FetchCalendars} ELSE {})

RequestOk(r) == IF r[1] = "primary" THEN probe.prim[r[2]].ok ELSE probe.wide[r[2]].ok

\* one request of the fetch failed while another succeeded
PartialFailure ==
    /\ probe.done
    /\ \E r \in RequestsMade : ~RequestOk(r)
    /\ \E r \in RequestsMade : RequestOk(r)

ImplicitlyCancelled == {probe.sent[i].uid : i \in {j \in 1..Len(probe.sent) : probe.sent[j].implicit}}

\* C32 as stated: after a partial failure no implicit cancellation is sent.
C32_AsStated ==
    PartialFailure => ImplicitlyCancelled = {}

\* C32: a fetch of which one request failed while another succeeded counts as
\* trustworthy: the implicit cancellations of that tick are exactly the cached
\* events absent from the partial result.
C32_PartialFetchTrusted ==
    PartialFailure =>
        /\ probe.fetch.ok
        /\ ImplicitlyCancelled =
              {"a", "b"} \ {probe.fetch.events[i].uid : i \in 1..Len(probe.fetch.events)}

\* C32 happens: c1 answers with a, c2 fails, and b is cancelled implicitly
C32_Witness ==
    /\ PartialFailure
    /\ probe.prim["c1"].ok /\ ~probe.prim["c2"].ok
    /\ ImplicitlyCancelled = {"b"}

\* C33: the alarm of an event that is in every fetch is fired by some tick: once
\* a tick has read a clock after the trigger time, the reminder has been sent.
C33_NoGapBetweenWindows ==
    probe.read > AlarmAt => probe.fired

\* C35: after a tick that started at slot s has finished, the next tick time the
\* loop computes is greater than s.
C35_OneTickPerSlot ==
    (probe.phase = "sleep" /\ probe.started >= 0) => probe.tick > probe.started

\* C34: no reminder, lead-time reminder or start-of-meeting notice is sent for an
\* event whose status in the current fetch is CANCELLED.
C34_NoReminderForCancelled ==
    last.remCalled =>
        \A i \in 1..Len(last.events) :
            last.events[i].status = "CANCELLED" =>
                RemindersOf(last.reminders, last.events[i].uid) = {}

\* C36: when start returns after the main loop has run, the cleanup has been
\* performed exactly once: the listener told to stop, the chat session
\* disconnected, the web runner cleaned up and the database closed.
C36_CleanupOnReturn ==
    (probe.pc = "returned" /\ probe.loopRan /\ ~probe.raised) =>
        /\ probe.wsStopped = 1
        /\ probe.disconnected = 1
        /\ probe.webCleaned = 1
        /\ probe.dbClosed = 1

\* C37: the upsert of one user's iteration is all-or-nothing: when
\* _update_events_cache returns, every uid of the batch has the row of its event;
\* when an event of the batch makes it raise, every row is as it was before the
\* call (the rows the implicit branch marked CANCELLED before it stay marked).
C37_UpsertAllOrNothing ==
    [][Processed =>
          /\ last'.raised = "none" =>
                \A i \in LastOfUid(last'.events) :
                    cache'[last'.user][last'.events[i].uid] = RowOf(last'.events[i])
          /\ last'.raised = "cache" =>
                \A uid \in UIDs :
                    cache'[last'.user][uid] =
                        IF uid \in last'.missing
                        THEN [cache[last'.user][uid] EXCEPT !.status = "CANCELLED"]
                        ELSE cache[last'.user][uid]]_vars

\* C37 happens: the upsert raised on one event of a batch that also held an event
\* with parseable times, and that event's row was not written
C37_Witness ==
    /\ last.ran /\ last.raised = "cache"
    /\ \E i \in LastOfUid(last.events) :
          /\ last.events[i].start # NoTime /\ last.events[i].end # NoTime
          /\ cache[last.user][last.events[i].uid] # RowOf(last.events[i])

\* C38: the wizard creates a calendar event only when the stored dialog state is
\* creating_meeting_location and title, date, time and duration were collected.
C38_CreatedOnlyAtLocationStep ==
    probe.made.state # "" =>
        (probe.made.state = "creating_meeting_location" /\ probe.made.complete)

\* C39: no message is handled with a snapshot of the dialog state that was read
\* before an earlier message's handler ran and that the stored state has left.
C39_MessagesAppliedInOrder ==
    ~probe.stale

====
